---- MODULE Spec2Model ----
(***************************************************************************)
(* Model of the Globed game server: the connection handler                 *)
(* (src/src/handler.rs), the session manager and game session              *)
(* (src/src/session_manager.rs), the per-client data                       *)
(* (src/src/client_data.rs) and the trigger engine                         *)
(* (src/src/trigger_manager.rs).                                           *)
(*                                                                         *)
(* Every handler of ConnectionHandler is one action.  The handlers are     *)
(* written as operators from a world record (the fields of                 *)
(* ConnectionHandler, the clients and the GameSession objects) to a world  *)
(* record, so that a handler that calls another one (LoginUTokenAndJoin)   *)
(* is the composition of the two.                                          *)
(***************************************************************************)
EXTENDS Integers, Sequences, FiniteSets, TLC

\* ------------------------------------------------------------------ bounds
\* Connections the transport accepts during a run; a connection id is never reused.
NumClients == 2
\* Account ids the token issuer signs tokens for (1..NumAccounts; 0 is "no account").
NumAccounts == 2
\* Session ids clients ask to join (all with room_id 0: public sessions).
NumSessionIds == 2
\* GameSession objects alive at once (registered, or still held by a client's slot).
MaxObjs == 2
\* Item ids of counters.
NumItems == 3
\* Counter values are kept in -MaxValue..MaxValue by the guard of PlayerData.
MaxValue == 1
\* prio_counter of a participant is kept at or below MaxPrio by the guards.
MaxPrio == 3
\* Inbound events carried by one PlayerData message.
MaxInEvents == 1
\* The limits of the per-participant queues and of a frame.  The source has
\* 1024 (session_manager.rs:131), 512 (session_manager.rs:121) and
\* MAX_EVENT_COUNT = 64 (handler.rs:75); they are scaled down here so that the
\* queues fill up, and every definition below refers to them by name only.
MaxUnreadCounters == 2
MaxUnreadEvents == 2
MAX_EVENT_COUNT == 1
\* Room ids the central server announces (1..NumRooms).
NumRooms == 1
\* Passcodes of rooms and of join requests are in 0..MaxPasscode.
MaxPasscode == 1
\* reconnect_attempt of the bridge is kept at or below MaxAttempts by the guards.
MaxAttempts == 7
\* MAX_EVENT_COUNT at a scale where a frame holds a counter change and an event.
WideEventCount == 2
\* The events field of a PlayerData message is specified with 64 entries at most;
\* scaled like MAX_EVENT_COUNT.
MaxInboundEvents == 1
\* log_script_message drops when the buffer holds more than MaxScriptLogs messages.
MaxScriptLogs == 1

Clients == 1..NumClients
Accounts == 1..NumAccounts
\* The ids of public sessions: level ids 1..NumSessionIds with room_id 0.
SessionIds == 1..NumSessionIds
RoomIds == 1..NumRooms
Passcodes == 0..MaxPasscode

\* SessionId packs the room id above the level id; room_id() takes it out again.
MakeSessionId(room_id, level_id) == room_id * (NumSessionIds + 1) + level_id

RoomId(session_id) == session_id \div (NumSessionIds + 1)

\* The ids of the sessions of level 1 in the rooms.
RoomSessionIds == {MakeSessionId(r, 1) : r \in RoomIds}

AllSessionIds == SessionIds \cup RoomSessionIds
ObjIds == 1..MaxObjs
Items == 1..NumItems

\* Option::None of a session slot, a registry entry, an all_clients entry.
None == 0

\* ------------------------------------------------------------------ maps
EmptyMap == [x \in {} |-> 0]

MapPut(m, k, v) == [x \in (DOMAIN m) \cup {k} |-> IF x = k THEN v ELSE m[x]]

MapDel(m, k) == [x \in (DOMAIN m) \ {k} |-> m[x]]

\* All orders in which an iteration can visit the set S.
Orders(S) == {q \in [1..Cardinality(S) -> S] : \A i, j \in 1..Cardinality(S) : i # j => q[i] # q[j]}

\* ------------------------------------------------------------------ events
\* f32 payloads of Multiply and Divide: a finite integral value or a non-finite one.
Float(finite, val) == [finite |-> finite, val |-> val]

\* The CounterChangeType values clients send.
CounterChangeTypes == {[kind |-> "Set", val |-> 0], [kind |-> "Add", val |-> 1]}

\* The inbound events a client sends inside PlayerData.
InEvents ==
    {[type |-> "CounterChange", item_id |-> i, ctype |-> t] : i \in Items, t \in CounterChangeTypes}
    \cup {[type |-> "TwoPlayerLinkRequest", player_id |-> p, player1 |-> b] : p \in Accounts, b \in BOOLEAN}
    \cup {[type |-> "TwoPlayerUnlink", player_id |-> p] : p \in Accounts}
    \cup {[type |-> "Scripted"]}

InEventLists == UNION {[1..n -> InEvents] : n \in 0..MaxInEvents}

\* OutEvent::CounterChange(CounterChangeEvent { item_id, type: Set(value) })
OutCounterChange(item, value) == [type |-> "CounterChange", item_id |-> item, value |-> value]

\* OutEvent::SetItem { item_id, value }
OutSetItem(item, value) == [type |-> "SetItem", item_id |-> item, value |-> value]

OutLinkRequest(from, p1) == [type |-> "TwoPlayerLinkRequest", player_id |-> from, player1 |-> p1]

OutUnlink(from) == [type |-> "TwoPlayerUnlink", player_id |-> from]

\* ------------------------------------------------------------------ trigger manager
\* i32::MAX; i32::MIN is -I32Max - 1.
I32Max == 2147483647

\* i32::wrapping_add, written so that no intermediate value leaves the i32 range.
WrappingAdd(a, b) ==
    IF b > 0 /\ a > I32Max - b THEN (a - I32Max - 1) + (b - I32Max - 1)
    ELSE IF b < 0 /\ a < (-I32Max - 1) - b THEN (a + I32Max + 1) + (b + I32Max + 1)
    ELSE a + b

\* Division of the f32 image of a by the integral b, cast back with `as i32`
\* (truncation toward zero); exact for the small values of the model.
TruncDiv(a, b) == IF (a >= 0) = (b > 0) THEN (IF a >= 0 THEN a ELSE -a) \div (IF b > 0 THEN b ELSE -b)
                  ELSE -((IF a >= 0 THEN a ELSE -a) \div (IF b > 0 THEN b ELSE -b))

\* Faulty variant of handle_change: Multiply does not look at is_finite.
HandleChangeAnyFactor(values, cc) ==
    LET entry == IF cc.item_id \in DOMAIN values THEN values[cc.item_id] ELSE 0
        t == cc.ctype
        new == CASE t.kind = "Add" -> WrappingAdd(entry, t.val)
                 [] t.kind = "Set" -> t.val
                 [] t.kind = "Multiply" -> entry * t.f.val
                 [] t.kind = "Divide" -> IF t.f.val # 0 /\ t.f.finite THEN TruncDiv(entry, t.f.val) ELSE entry
    IN MapPut(values, cc.item_id, new)

\* TriggerManager::handle_change on the values map: the new map; the returned
\* value is HandleChange(values, cc)[cc.item_id].
HandleChange(values, cc) ==
    LET entry == IF cc.item_id \in DOMAIN values THEN values[cc.item_id] ELSE 0
        t == cc.ctype
        new == CASE t.kind = "Add" -> WrappingAdd(entry, t.val)
                 [] t.kind = "Set" -> t.val
                 [] t.kind = "Multiply" -> IF t.f.finite THEN entry * t.f.val ELSE entry
                 [] t.kind = "Divide" -> IF t.f.val # 0 /\ t.f.finite THEN TruncDiv(entry, t.f.val) ELSE entry
    IN MapPut(values, cc.item_id, new)

\* ------------------------------------------------------------------ game player state
\* Faulty variant of the new player state: the account id is left at its default.
NewPlayerStateDefault(account_id) ==
    [state |-> [account_id |-> 0],
     unread_counter_values |-> EmptyMap,
     unread_events |-> <<>>,
     prio_counter |-> 0,
     wants_hidden |-> FALSE]

\* GamePlayerState::default() / GamePlayerState::new(state)
NewPlayerState(account_id) ==
    [state |-> [account_id |-> account_id],
     unread_counter_values |-> EmptyMap,
     unread_events |-> <<>>,
     prio_counter |-> 0,
     wants_hidden |-> FALSE]

\* Faulty variant of push_event: the length check is missing.
PlayerPushEventUnbounded(p, ev) == [p EXCEPT !.unread_events = Append(@, ev)]

\* Faulty variant of push_event: the event is put at the front of the queue.
PlayerPushEventFront(p, ev) ==
    IF Len(p.unread_events) >= MaxUnreadEvents
    THEN p
    ELSE [p EXCEPT !.unread_events = <<ev>> \o @]

\* GamePlayerState::push_event
PlayerPushEvent(p, ev) ==
    IF Len(p.unread_events) >= MaxUnreadEvents
    THEN p
    ELSE [p EXCEPT !.unread_events = Append(@, ev)]

\* Faulty variant of push_counter_change: an entry that is replaced keeps its prio.
PushCounterChangeKeepPrio(p, item_id, value) ==
    IF Cardinality(DOMAIN p.unread_counter_values) >= MaxUnreadCounters
    THEN p
    ELSE [p EXCEPT !.prio_counter = @ + 1,
                   !.unread_counter_values =
                       MapPut(p.unread_counter_values, item_id,
                              [value |-> value,
                               prio |-> IF item_id \in DOMAIN p.unread_counter_values
                                        THEN p.unread_counter_values[item_id].prio
                                        ELSE p.prio_counter + 1])]

\* GamePlayerState::push_counter_change (prio_counter wraps at usize::MAX only,
\* far above MaxPrio)
PushCounterChange(p, item_id, value) ==
    IF Cardinality(DOMAIN p.unread_counter_values) >= MaxUnreadCounters
    THEN p
    ELSE [p EXCEPT !.prio_counter = @ + 1,
                   !.unread_counter_values =
                       MapPut(p.unread_counter_values, item_id,
                              [value |-> value, prio |-> p.prio_counter + 1])]

\* What pop_counter_changes(limit) can take out of the map: retain() visits the
\* entries in the hash map's iteration order and removes the first `limit` ones,
\* so any subset of that size is a possible outcome.
PopChoices(p, limit) ==
    LET n == Cardinality(DOMAIN p.unread_counter_values)
        k == IF n < limit THEN n ELSE limit
    IN {S \in SUBSET (DOMAIN p.unread_counter_values) : Cardinality(S) = k}

\* changes.sort_by_key(|x| x.2) on the popped entries
RECURSIVE SortByPrio(_, _)
SortByPrio(m, S) ==
    IF S = {} THEN <<>>
    ELSE LET k == CHOOSE k \in S : \A j \in S : m[k].prio <= m[j].prio
         IN <<[item_id |-> k, value |-> m[k].value, prio |-> m[k].prio]>> \o SortByPrio(m, S \ {k})

\* ------------------------------------------------------------------ game session
\* GameSession::new (platformer and created_at are not read by any operation below;
\* logs is the length of the script log buffer)
NewGameSession(id, owner) ==
    [id |-> id,
     owner |-> owner,
     players |-> EmptyMap,
     counters |-> EmptyMap,
     player_ids |-> {},
     values |-> EmptyMap,
     scripting |-> FALSE,
     logs |-> 0]

\* The loop of add_player over self.counters.iter(), visiting the items in `order`.
RECURSIVE SeedCounters(_, _, _, _)
SeedCounters(p, counters, order, i) ==
    IF i > Len(order) THEN p
    ELSE SeedCounters(PushCounterChange(p, order[i], counters[order[i]]), counters, order, i + 1)

\* Faulty variant of add_player: the new participant is not seeded.
AddPlayerUnseeded(s, player_id, order) ==
    [s EXCEPT !.players = MapPut(s.players, player_id, NewPlayerState(player_id)),
              !.player_ids = @ \cup {player_id}]

\* GameSession::add_player
AddPlayer(s, player_id, order) ==
    LET state == SeedCounters(NewPlayerState(player_id), s.counters, order, 1)
    IN [s EXCEPT !.players = MapPut(s.players, player_id, state),
                 !.player_ids = @ \cup {player_id}]

\* GameSession::remove_player
RemovePlayer(s, player_id) ==
    [s EXCEPT !.players = MapDel(s.players, player_id),
              !.player_ids = @ \ {player_id}]

\* GameSession::player_count
PlayerCount(s) == Cardinality(DOMAIN s.players)

\* Faulty variant of update_player: the unread events are drained without
\* looking at the room left in the frame.
UpdatePlayerDrain(s, state, out_events, picked) ==
    LET id == state.account_id
        player0 == IF id \in DOMAIN s.players THEN s.players[id] ELSE NewPlayerState(0)
        player1 == [player0 EXCEPT !.state = state]
        valid == picked \in PopChoices(player1, MAX_EVENT_COUNT)
        changes == IF valid THEN SortByPrio(player1.unread_counter_values, picked) ELSE <<>>
        player2 == [player1 EXCEPT !.unread_counter_values =
                       [k \in (DOMAIN player1.unread_counter_values) \ picked |->
                           player1.unread_counter_values[k]],
                                   !.unread_events = <<>>]
        out == out_events
               \o [i \in 1..Len(changes) |-> OutCounterChange(changes[i].item_id, changes[i].value)]
               \o player1.unread_events
    IN [s |-> [s EXCEPT !.players = MapPut(s.players, id, player2)], out |-> out, valid |-> valid]

\* Faulty variant of update_player: the counter values put into the frame
\* stay in the unread map.
UpdatePlayerMaxKeep(s, state, out_events, picked, max) ==
    LET id == state.account_id
        player0 == IF id \in DOMAIN s.players THEN s.players[id] ELSE NewPlayerState(0)
        player1 == [player0 EXCEPT !.state = state]
        max_counter_values ==
            IF max > Len(out_events) THEN max - Len(out_events) ELSE 0
        pops == max_counter_values # 0 /\ DOMAIN player1.unread_counter_values # {}
        valid == IF pops THEN picked \in PopChoices(player1, max_counter_values)
                 ELSE picked = {}
        changes == IF pops /\ valid THEN SortByPrio(player1.unread_counter_values, picked)
                   ELSE <<>>
        out1 == out_events \o
                [i \in 1..Len(changes) |->
                    IF s.scripting
                    THEN OutSetItem(changes[i].item_id, changes[i].value)
                    ELSE OutCounterChange(changes[i].item_id, changes[i].value)]
    IN [s |-> [s EXCEPT !.players = MapPut(s.players, id, player1)],
        out |-> out1,
        valid |-> valid]

\* GameSession::update_player: the session afterwards and the out-events
\* collected.  `picked` is what pop_counter_changes takes out of the map, max
\* the value of MAX_EVENT_COUNT.
UpdatePlayerMax(s, state, out_events, picked, max) ==
    LET id == state.account_id
        player0 == IF id \in DOMAIN s.players THEN s.players[id] ELSE NewPlayerState(0)
        player1 == [player0 EXCEPT !.state = state]
        max_counter_values ==
            IF max > Len(out_events) THEN max - Len(out_events) ELSE 0
        pops == max_counter_values # 0 /\ DOMAIN player1.unread_counter_values # {}
        valid == IF pops THEN picked \in PopChoices(player1, max_counter_values)
                 ELSE picked = {}
        changes == IF pops /\ valid THEN SortByPrio(player1.unread_counter_values, picked)
                   ELSE <<>>
        player2 ==
            IF pops /\ valid
            THEN [player1 EXCEPT !.unread_counter_values =
                     [k \in (DOMAIN player1.unread_counter_values) \ picked |->
                         player1.unread_counter_values[k]]]
            ELSE player1
        out1 == out_events \o
                [i \in 1..Len(changes) |->
                    IF s.scripting
                    THEN OutSetItem(changes[i].item_id, changes[i].value)
                    ELSE OutCounterChange(changes[i].item_id, changes[i].value)]
        room == IF max > Len(out1) THEN max - Len(out1) ELSE 0
        n == IF Len(player2.unread_events) < room THEN Len(player2.unread_events) ELSE room
        player3 == [player2 EXCEPT !.unread_events = SubSeq(@, n + 1, Len(@))]
        out2 == out1 \o SubSeq(player2.unread_events, 1, n)
    IN [s |-> [s EXCEPT !.players = MapPut(s.players, id, player3)],
        out |-> out2,
        valid |-> valid]

\* GameSession::update_player with MAX_EVENT_COUNT at the scale of the model
UpdatePlayer(s, state, out_events, picked) ==
    UpdatePlayerMax(s, state, out_events, picked, MAX_EVENT_COUNT)

\* Faulty variant of notify_counter_change: a zero value is stored like any other.
NotifyCounterChangeKeepZero(s, item_id, value) ==
    [s EXCEPT !.counters = MapPut(s.counters, item_id, value),
              !.players = [p \in DOMAIN s.players |->
                              PushCounterChange(s.players[p], item_id, value)]]

\* Faulty variant of notify_counter_change: the participants are not told.
NotifyCounterChangeNoFanout(s, item_id, value) ==
    [s EXCEPT !.counters = IF value = 0 THEN MapDel(s.counters, item_id)
                           ELSE MapPut(s.counters, item_id, value)]

\* GameSession::notify_counter_change
NotifyCounterChange(s, item_id, value) ==
    [s EXCEPT !.counters = IF value = 0 THEN MapDel(s.counters, item_id)
                           ELSE MapPut(s.counters, item_id, value),
              !.players = [p \in DOMAIN s.players |->
                              PushCounterChange(s.players[p], item_id, value)]]

\* Faulty variant of GameSession::push_event: the event goes to every player.
PushEventToAll(s, player_id, event) ==
    [s EXCEPT !.players = [p \in DOMAIN s.players |-> PlayerPushEvent(s.players[p], event)]]

\* GameSession::push_event
PushEvent(s, player_id, event) ==
    IF player_id \in DOMAIN s.players
    THEN [s EXCEPT !.players[player_id] = PlayerPushEvent(s.players[player_id], event)]
    ELSE s

\* ------------------------------------------------------------------ state
VARIABLES
    clients,       \* connection id -> ClientData and the connection's state
    all_clients,   \* ConnectionHandler.all_clients: account id -> connection id, or None
    sessions,      \* SessionManager.sessions: session id -> GameSession object, or None
    objs,          \* the GameSession objects alive: object id -> GameSession
    token_issuer,  \* ConnectionHandler.token_issuer is Some
    script_signer, \* ConnectionHandler.script_signer is Some
    verify_script_signatures, \* ConnectionHandler.verify_script_signatures, from the configuration
    all_rooms,     \* ConnectionHandler.all_rooms: room id -> CentralRoom
    heartbeats,    \* SessionManager.heartbeats: a set keyed by session id -> GameSession object
    bridge,        \* the fields of BridgeHandler and the position of its connection
    last           \* the handler that ran last: which, for whom, what it returned, applied and sent

vars == <<clients, all_clients, sessions, objs, token_issuer, script_signer,
          verify_script_signatures, all_rooms, heartbeats, bridge, last>>

\* ClientData::default(), for a connection that is not accepted yet ("fresh"),
\* is being served ("connected") or whose on_client_disconnect has run ("gone").
\* kicked: ClientState::disconnect has been called on it.  pc, leaving: where
\* the handler that serves the connection stands ("idle": between messages;
\* "delete": in handle_leave_session, before remove_from_session calls
\* delete_session_if_empty; "insert": in add_player, before players.insert)
\* and the session it holds meanwhile.  joining: the GamePlayerState that
\* add_player has built and not inserted yet.  notifying: the (item, value)
\* that handle_change has returned and notify_counter_change has not yet
\* been called with (pc "notify").
NewClient ==
    [status |-> "fresh", account_data |-> 0, deauthorized |-> FALSE, session |-> None,
     kicked |-> FALSE, pc |-> "idle", leaving |-> None, joining |-> None,
     notifying |-> None]

\* The state the handlers work on.  ret, sent and valid are the handler's
\* result, the messages it sent, and whether the iteration orders it was given
\* are orders the maps can produce.
World ==
    [clients |-> clients, all_clients |-> all_clients, sessions |-> sessions, objs |-> objs,
     token_issuer |-> token_issuer, script_signer |-> script_signer,
     verify_script_signatures |-> verify_script_signatures,
     all_rooms |-> all_rooms, heartbeats |-> heartbeats,
     bridge |-> bridge,
     ret |-> "Ok", sent |-> <<>>, valid |-> TRUE]

\* ClientData::authorized / ClientData::account_data: set and not deauthorized
Authorized(w, c) == w.clients[c].account_data # 0 /\ ~w.clients[c].deauthorized

\* ClientData::account_id
AccountId(w, c) == IF Authorized(w, c) THEN w.clients[c].account_data ELSE 0

\* Weak::upgrade of an all_clients entry: the client, unless it has been dropped.
Upgrade(w, c) == IF c # None /\ w.clients[c].status = "connected" THEN c ELSE None

\* ConnectionHandler::find_client
FindClient(w, id) == Upgrade(w, w.all_clients[id])

Send(w, msg) == [w EXCEPT !.sent = Append(@, msg)]

\* Dropping the last Arc of a GameSession frees it: an object stays alive while
\* the registry or a client's session slot refers to it.
Referenced(w, o) ==
    \/ \E sid \in AllSessionIds : w.sessions[sid] = o
    \/ \E c \in Clients : w.clients[c].session = o \/ w.clients[c].leaving = o
    \/ \E sid \in DOMAIN w.heartbeats : w.heartbeats[sid] = o

DropUnreferenced(w) ==
    [w EXCEPT !.objs = [o \in {x \in DOMAIN w.objs : Referenced(w, x)} |-> w.objs[o]]]

\* ------------------------------------------------------------------ session manager
\* Faulty variant of delete_session_if_empty: the players map is not looked at.
DeleteSessionAlways(w, session_id) ==
    [w EXCEPT !.sessions[session_id] = None, !.heartbeats = MapDel(@, session_id)]

\* SessionManager::delete_session_if_empty
DeleteSessionIfEmpty(w, session_id) ==
    IF w.sessions[session_id] # None /\ DOMAIN w.objs[w.sessions[session_id]].players = {}
    THEN [w EXCEPT !.sessions[session_id] = None, !.heartbeats = MapDel(@, session_id)]
    ELSE w

\* SessionManager::schedule_heartbeat: the set keeps the element it has for
\* a session id.
ScheduleHeartbeatFor(w, o) ==
    IF w.objs[o].id \in DOMAIN w.heartbeats THEN w
    ELSE [w EXCEPT !.heartbeats = MapPut(@, w.objs[o].id, o)]

\* SessionManager::get_or_create_session: the world with the session registered;
\* the session object is then w.sessions[session_id].  A new GameSession takes
\* the first free object id; there is none when MaxObjs objects are alive.
GetOrCreateSession(w, session_id, owner) ==
    IF w.sessions[session_id] # None THEN w
    ELSE IF ObjIds \ DOMAIN w.objs = {} THEN [w EXCEPT !.valid = FALSE]
    ELSE LET o == CHOOSE x \in ObjIds \ DOMAIN w.objs : \A y \in ObjIds \ DOMAIN w.objs : x <= y
         IN [w EXCEPT !.sessions[session_id] = o,
                      !.objs = MapPut(w.objs, o, NewGameSession(session_id, owner))]

\* ------------------------------------------------------------------ connection handler
\* ConnectionHandler::remove_from_session (emit_script_event reaches the
\* scripting engine only)
RemoveFromSession(w, c, o) ==
    LET account_id == AccountId(w, c)
        w1 == [w EXCEPT !.objs[o] = RemovePlayer(w.objs[o], account_id)]
    IN DeleteSessionIfEmpty(w1, w.objs[o].id)

\* ClientData::take_session followed by remove_from_session on what it returned
TakeAndRemove(w, c) ==
    LET o == w.clients[c].session
        w1 == [w EXCEPT !.clients[c].session = None]
    IN IF o # None THEN RemoveFromSession(w1, c, o) ELSE w1

\* ConnectionHandler::on_login_success
OnLoginSuccess(w, c, account_id) ==
    LET old == w.all_clients[account_id]
        w1 == [w EXCEPT !.all_clients[account_id] = c]
        old_client == Upgrade(w, old)
        \* old_client.deauthorize(), remove_from_session, old_client.disconnect()
        w2 == IF old # None /\ old_client # None
              THEN LET d == [w1 EXCEPT !.clients[old_client].deauthorized = TRUE]
                       r == TakeAndRemove(d, old_client)
                   IN Send([r EXCEPT !.clients[old_client].kicked = TRUE],
                           [to |-> old_client, kind |-> "Disconnect"])
              ELSE w1
        \* client.set_account_data: the OnceLock keeps what it already holds
        w3 == IF w2.clients[c].account_data = 0
              THEN [w2 EXCEPT !.clients[c].account_data = account_id]
              ELSE w2
    IN Send(w3, [to |-> c, kind |-> "LoginOk"])

\* ConnectionHandler::on_login_failed
OnLoginFailed(w, c, reason) == Send(w, [to |-> c, kind |-> "LoginFailed", reason |-> reason])

\* ConnectionHandler::handle_login_attempt; ret is "true" or "false".
\* token_ok: issuer.validate_match(token, account_id) accepts the token.
HandleLoginAttempt(w, c, account_id, token_ok) ==
    IF Authorized(w, c) THEN [w EXCEPT !.ret = "true"]
    ELSE IF w.token_issuer
         THEN IF token_ok
              THEN [OnLoginSuccess(w, c, account_id) EXCEPT !.ret = "true"]
              ELSE [OnLoginFailed(w, c, "InvalidUserToken") EXCEPT !.ret = "false"]
         ELSE [OnLoginFailed(w, c, "CentralServerUnreachable") EXCEPT !.ret = "false"]

\* Faulty variant of the room check: the passcode is not compared.
CheckRoomNoPasscode(w, session_id, passcode) ==
    IF RoomId(session_id) # 0 /\ RoomId(session_id) \notin DOMAIN w.all_rooms THEN "InvalidRoom" ELSE "Ok"

\* The check of do_join_session that the session is for a valid room: the
\* JoinSessionFailedReason, or "Ok".
CheckRoom(w, session_id, passcode) ==
    LET room_id == RoomId(session_id)
    IN IF room_id # 0
       THEN IF room_id \in DOMAIN w.all_rooms
            THEN IF w.all_rooms[room_id].passcode # 0 /\ w.all_rooms[room_id].passcode # passcode
                 THEN "InvalidPasscode"
                 ELSE "Ok"
            ELSE "InvalidRoom"
       ELSE "Ok"

\* The owner do_join_session creates the session with.
RoomOwner(w, session_id) ==
    IF RoomId(session_id) # 0 THEN w.all_rooms[RoomId(session_id)].owner ELSE 0

\* ConnectionHandler::do_join_session, once the room has been accepted.
\* `order` is the order in which add_player iterates the session's counters.
DoJoinSession(w, c, session_id, order) ==
    LET w1 == GetOrCreateSession(w, session_id, RoomOwner(w, session_id))
        new_session == w1.sessions[session_id]
        old_session == w1.clients[c].session
        \* client.set_session(new_session.clone())
        w2 == [w1 EXCEPT !.clients[c].session = new_session]
        w3 == IF old_session # None THEN RemoveFromSession(w2, c, old_session) ELSE w2
    IN IF ~w1.valid THEN w1
       ELSE IF order \notin Orders(DOMAIN w3.objs[new_session].counters)
       THEN [w3 EXCEPT !.valid = FALSE]
       ELSE [w3 EXCEPT !.objs[new_session] =
                AddPlayer(w3.objs[new_session], AccountId(w3, c), order)]

\* do_join_session up to the end of the loop of add_player over the counters:
\* the session is obtained, the client's slot is set, the old session is left
\* and the new GamePlayerState is seeded, but not yet in the players map.
DoJoinSnapshot(w, c, session_id, order) ==
    LET w1 == GetOrCreateSession(w, session_id, RoomOwner(w, session_id))
        new_session == w1.sessions[session_id]
        old_session == w1.clients[c].session
        w2 == [w1 EXCEPT !.clients[c].session = new_session]
        w3 == IF old_session # None THEN RemoveFromSession(w2, c, old_session) ELSE w2
    IN IF ~w1.valid THEN w1
       ELSE IF order \notin Orders(DOMAIN w3.objs[new_session].counters)
       THEN [w3 EXCEPT !.valid = FALSE]
       ELSE [w3 EXCEPT !.clients[c].pc = "insert",
                       !.clients[c].joining =
                           SeedCounters(NewPlayerState(AccountId(w3, c)),
                                        w3.objs[new_session].counters, order, 1)]

\* handle_join_session up to the same point
HandleJoinSnapshot(w, c, session_id, passcode, order) ==
    IF ~Authorized(w, c) THEN [w EXCEPT !.ret = "Unauthorized", !.valid = (order = <<>>)]
    ELSE IF CheckRoom(w, session_id, passcode) # "Ok"
    THEN [Send(w, [to |-> c, kind |-> "JoinSessionFailed",
                   reason |-> CheckRoom(w, session_id, passcode)])
          EXCEPT !.valid = (order = <<>>)]
    ELSE DoJoinSnapshot(w, c, session_id, order)

\* The rest of add_player: players.insert(player_id, state) and
\* player_ids.insert(player_id) on the session the handler holds.
HandleJoinInsert(w, c) ==
    LET o == w.clients[c].session
        state == w.clients[c].joining
        id == state.state.account_id
    IN [w EXCEPT !.objs[o].players = MapPut(@, id, state),
                 !.objs[o].player_ids = @ \cup {id},
                 !.clients[c].pc = "idle",
                 !.clients[c].joining = None]

\* ConnectionHandler::handle_join_session: a join that do_join_session refuses
\* is answered with JoinSessionFailed and the handler returns Ok.
HandleJoinSession(w, c, session_id, passcode, order) ==
    IF ~Authorized(w, c) THEN [w EXCEPT !.ret = "Unauthorized", !.valid = (order = <<>>)]
    ELSE IF CheckRoom(w, session_id, passcode) # "Ok"
    THEN [Send(w, [to |-> c, kind |-> "JoinSessionFailed",
                   reason |-> CheckRoom(w, session_id, passcode)])
             EXCEPT !.valid = (order = <<>>)]
    ELSE DoJoinSession(w, c, session_id, order)

\* Faulty variant of handle_leave_session: must_auth is missing.
HandleLeaveSessionNoAuth(w, c) == TakeAndRemove(w, c)

\* ConnectionHandler::handle_leave_session
HandleLeaveSession(w, c) ==
    IF ~Authorized(w, c) THEN [w EXCEPT !.ret = "Unauthorized"]
    ELSE TakeAndRemove(w, c)

\* GameSession::log_script_message: a message is appended, unless the buffer
\* holds more than MaxScriptLogs messages: then its oldest message is dropped
\* and the new one is not kept.
LogScriptMessage(s) == [s EXCEPT !.logs = IF @ > MaxScriptLogs THEN @ - 1 ELSE @ + 1]

\* GameSession::init_scripting; engine_ok: ScriptManager::new_with_scripts
\* returns Ok.  A script is [main, signed]: its main flag and whether its
\* signature is the signer's signature of its content.
InitScripting(s, scripts, engine_ok) ==
    IF s.scripting THEN [ok |-> FALSE, s |-> s]
    ELSE IF ~\E i \in DOMAIN scripts : scripts[i].main THEN [ok |-> FALSE, s |-> s]
    ELSE IF ~engine_ok THEN [ok |-> FALSE, s |-> s]
    ELSE [ok |-> TRUE, s |-> [s EXCEPT !.scripting = TRUE]]

\* Faulty variant of handle_send_level_script: the signatures are not validated.
HandleSendLevelScriptUnverified(w, c, scripts, engine_ok) ==
    LET o == w.clients[c].session
    IN IF o = None THEN w
       ELSE IF AccountId(w, c) # w.objs[o].owner THEN w
       ELSE IF w.verify_script_signatures /\ ~w.script_signer
            THEN [w EXCEPT !.objs[o] = LogScriptMessage(@)]
       ELSE LET r == InitScripting(w.objs[o], scripts, engine_ok)
            IN IF r.ok THEN [w EXCEPT !.objs[o] = r.s]
               ELSE [w EXCEPT !.objs[o] = LogScriptMessage(r.s)]

\* ConnectionHandler::handle_send_level_script, in a build with the scripting
\* feature (the PlayerJoin events it emits after a successful initialisation
\* reach the scripting engine only)
HandleSendLevelScript(w, c, scripts, engine_ok) ==
    LET o == w.clients[c].session
    IN IF o = None THEN w
       ELSE IF AccountId(w, c) # w.objs[o].owner THEN w
       ELSE IF w.verify_script_signatures /\ ~w.script_signer
            THEN [w EXCEPT !.objs[o] = LogScriptMessage(@)]
       ELSE IF w.verify_script_signatures /\ \E i \in DOMAIN scripts : ~scripts[i].signed
            THEN [w EXCEPT !.objs[o] = LogScriptMessage(@)]
       ELSE LET r == InitScripting(w.objs[o], scripts, engine_ok)
            IN IF r.ok THEN [w EXCEPT !.objs[o] = r.s]
               ELSE [w EXCEPT !.objs[o] = LogScriptMessage(r.s)]

\* handle_leave_session up to the call of delete_session_if_empty: must_auth,
\* take_session, and remove_player in remove_from_session
HandleLeaveTake(w, c) ==
    LET o == w.clients[c].session
    IN IF ~Authorized(w, c) THEN [w EXCEPT !.ret = "Unauthorized"]
       ELSE IF o = None THEN w
       ELSE [w EXCEPT !.clients[c].session = None,
                      !.clients[c].pc = "delete",
                      !.clients[c].leaving = o,
                      !.objs[o] = RemovePlayer(w.objs[o], AccountId(w, c))]

\* The rest of handle_leave_session: delete_session_if_empty(session.id()),
\* after which the handler lets go of the session.
HandleLeaveDelete(w, c) ==
    LET w1 == DeleteSessionIfEmpty(w, w.objs[w.clients[c].leaving].id)
    IN [w1 EXCEPT !.clients[c].pc = "idle", !.clients[c].leaving = None]

\* Faulty variant of do_handle_event: a counter change is applied to the
\* trigger values and not notified.
DoHandleEventNoNotify(w, c, o, event) ==
    IF ~Authorized(w, c) THEN w
    ELSE CASE event.type = "CounterChange" ->
                [w EXCEPT !.objs[o].values = HandleChange(w.objs[o].values, event)]
           [] event.type = "TwoPlayerLinkRequest" ->
                [w EXCEPT !.objs[o] =
                    PushEvent(w.objs[o], event.player_id,
                              OutLinkRequest(AccountId(w, c), ~event.player1))]
           [] event.type = "TwoPlayerUnlink" ->
                [w EXCEPT !.objs[o] = PushEvent(w.objs[o], event.player_id, OutUnlink(AccountId(w, c)))]
           [] OTHER -> w

\* ConnectionHandler::do_handle_event on the session object o
DoHandleEvent(w, c, o, event) ==
    IF ~Authorized(w, c) THEN w
    ELSE CASE event.type = "CounterChange" ->
                LET values == HandleChange(w.objs[o].values, event)
                    s == [w.objs[o] EXCEPT !.values = values]
                IN [w EXCEPT !.objs[o] = NotifyCounterChange(s, event.item_id, values[event.item_id])]
           [] event.type = "TwoPlayerLinkRequest" ->
                [w EXCEPT !.objs[o] =
                    PushEvent(w.objs[o], event.player_id,
                              OutLinkRequest(AccountId(w, c), ~event.player1))]
           [] event.type = "TwoPlayerUnlink" ->
                [w EXCEPT !.objs[o] = PushEvent(w.objs[o], event.player_id, OutUnlink(AccountId(w, c)))]
           [] OTHER -> w

\* The loop of handle_player_data over the inbound events
RECURSIVE HandleEvents(_, _, _, _, _)
HandleEvents(w, c, o, events, i) ==
    IF i > Len(events) THEN w
    ELSE HandleEvents(DoHandleEvent(w, c, o, events[i]), c, o, events, i + 1)

\* Faulty variant of the players list: the sender is not skipped.
RECURSIVE EncodePlayersAll(_, _, _, _, _, _)
EncodePlayersAll(s, account_id, player_count, order, i, written) ==
    IF i > Len(order) THEN [k \in 1..(player_count - Len(written)) |-> 0]
    ELSE IF Len(written) = player_count
         THEN EncodePlayersAll(s, account_id, player_count, order, i + 1, written)
         ELSE <<s.players[order[i]].state.account_id>>
              \o EncodePlayersAll(s, account_id, player_count, order, i + 1,
                                  Append(written, order[i]))

\* The players list of a frame: init_players(player_count) gives player_count
\* default entries (account id 0); for_every_player visits the players in
\* `order` and fills the next entry for every player but the sender.
RECURSIVE EncodePlayers(_, _, _, _, _, _)
EncodePlayers(s, account_id, player_count, order, i, written) ==
    IF i > Len(order) THEN [k \in 1..(player_count - Len(written)) |-> 0]
    ELSE IF Len(written) = player_count \/ s.players[order[i]].state.account_id = account_id
         THEN EncodePlayers(s, account_id, player_count, order, i + 1, written)
         ELSE <<s.players[order[i]].state.account_id>>
              \o EncodePlayers(s, account_id, player_count, order, i + 1,
                               Append(written, order[i]))

\* Point and CameraRange of player_state.rs, with integral coordinates
Point(x, y) == [x |-> x, y |-> y]

CameraRange(x, y, radius) == [center |-> Point(x, y), radius |-> radius]

\* The camera of a message that sets none
DefaultCamera == CameraRange(0, 0, 0)

\* PlayerDataKind::Single / Dual, each player object reduced to its position
SingleData(player) == [kind |-> "Single", player |-> player]

DualData(player1, player2) == [kind |-> "Dual", player1 |-> player1, player2 |-> player2]

\* PlayerDataKind::default(); a PlayerState of the model that has no
\* data_kind field stands for one with the default.
DataKind(state) ==
    IF "data_kind" \in DOMAIN state THEN state.data_kind ELSE SingleData(Point(0, 0))

\* Faulty variant of in_range: the border of the disk counts as inside.
ObjectInRangeInclusive(position, camera_range) ==
    LET dx == position.x - camera_range.center.x
        dy == position.y - camera_range.center.y
    IN camera_range.radius >= 0
       /\ dx * dx + dy * dy <= camera_range.radius * camera_range.radius

\* PlayerObjectData::in_range: position.distance(center) < radius.  For
\* integral coordinates the root of dx^2 + dy^2 is below the radius exactly
\* when the radius is positive and dx^2 + dy^2 is below its square.
ObjectInRange(position, camera_range) ==
    LET dx == position.x - camera_range.center.x
        dy == position.y - camera_range.center.y
    IN camera_range.radius > 0
       /\ dx * dx + dy * dy < camera_range.radius * camera_range.radius

\* PlayerState::in_range
InRange(state, camera_range) ==
    LET k == DataKind(state)
    IN IF k.kind = "Single" THEN ObjectInRange(k.player, camera_range)
       ELSE ObjectInRange(k.player1, camera_range) \/ ObjectInRange(k.player2, camera_range)

\* PlayerState::encode, the union of the entry: the object data or Culled
EncodeDataKind(state, camera_range) ==
    IF InRange(state, camera_range) THEN DataKind(state) ELSE [kind |-> "Culled"]

\* What the entries of the players list hold beside the account id: as
\* EncodePlayers, with the data of the entry in place of the account id; an
\* entry that is not written keeps the default of init_players.
RECURSIVE EncodeObjects(_, _, _, _, _, _, _)
EncodeObjects(s, account_id, player_count, order, i, written, camera_range) ==
    IF i > Len(order) THEN [k \in 1..(player_count - Len(written)) |-> [kind |-> "Default"]]
    ELSE IF Len(written) = player_count \/ s.players[order[i]].state.account_id = account_id
         THEN EncodeObjects(s, account_id, player_count, order, i + 1, written, camera_range)
         ELSE <<EncodeDataKind(s.players[order[i]].state, camera_range)>>
              \o EncodeObjects(s, account_id, player_count, order, i + 1,
                               Append(written, order[i]), camera_range)

\* Faulty variant of the choice of delivery: every frame is sent reliably.
ReliableAlways(out_events) == TRUE

\* The end of handle_player_data: the frame is sent with send_data_bufkind
\* (reliable) unless out_events is empty.
Reliable(out_events) == out_events # <<>>

\* Faulty variant of the account id check: any account id is accepted.
SpoofedNever(w, c, data) == FALSE

\* The check of handle_player_data that the PlayerState is the client's own.
Spoofed(w, c, data) == data.account_id # AccountId(w, c)

\* ConnectionHandler::handle_player_data.  data: the PlayerState of the message;
\* camera_range: its camera; picked: what pop_counter_changes takes; order:
\* the iteration order of for_every_player.
HandlePlayerDataCam(w, c, data, camera_range, events, picked, order) ==
    LET quiet == picked = {} /\ order = <<>>
    IN
    IF ~Authorized(w, c) THEN [w EXCEPT !.ret = "Unauthorized", !.valid = quiet]
    ELSE IF Spoofed(w, c, data)
    THEN [w EXCEPT !.ret = "SpoofedAccountId", !.valid = quiet]
    ELSE IF w.clients[c].session = None THEN [w EXCEPT !.valid = quiet]
    ELSE
    LET o == w.clients[c].session
        w1 == HandleEvents(w, c, o, events, 1)
        up == UpdatePlayer(w1.objs[o], data, <<>>, picked)
        player_count == PlayerCount(up.s)
        frame == [to |-> c, kind |-> "LevelData",
                  players |-> EncodePlayers(up.s, data.account_id, player_count, order, 1, <<>>),
                  objects |-> EncodeObjects(up.s, data.account_id, player_count, order, 1, <<>>,
                                            camera_range),
                  events |-> up.out,
                  reliable |-> Reliable(up.out)]
    IN IF ~(up.valid /\ order \in Orders(DOMAIN up.s.players))
       THEN [w1 EXCEPT !.valid = FALSE]
       ELSE Send([w1 EXCEPT !.objs[o] = up.s], frame)

\* handle_player_data for a message that leaves the camera at its default
HandlePlayerData(w, c, data, events, picked, order) ==
    HandlePlayerDataCam(w, c, data, DefaultCamera, events, picked, order)

\* handle_player_data of a message with the one inbound event `event`, a
\* CounterChange, up to the return of TriggerManager::handle_change in
\* do_handle_event.
HandlePlayerDataApply(w, c, data, event) ==
    IF ~Authorized(w, c) THEN [w EXCEPT !.ret = "Unauthorized"]
    ELSE IF Spoofed(w, c, data) THEN [w EXCEPT !.ret = "SpoofedAccountId"]
    ELSE IF w.clients[c].session = None THEN w
    ELSE LET o == w.clients[c].session
             values == HandleChange(w.objs[o].values, event)
         IN [w EXCEPT !.objs[o].values = values,
                      !.clients[c].pc = "notify",
                      !.clients[c].notifying =
                          [item_id |-> event.item_id, value |-> values[event.item_id]]]

\* The world once notify_counter_change has run with what handle_change returned
NotifyPending(w, c) ==
    LET o == w.clients[c].session
        n == w.clients[c].notifying
    IN [w EXCEPT !.objs[o] = NotifyCounterChange(@, n.item_id, n.value),
                 !.clients[c].pc = "idle",
                 !.clients[c].notifying = None]

\* The rest of that handle_player_data: notify_counter_change, update_player
\* and the frame.
HandlePlayerDataNotify(w, c, data, picked, order) ==
    HandlePlayerData(NotifyPending(w, c), c, data, <<>>, picked, order)

\* ConnectionHandler::on_client_disconnect; the ClientState is dropped afterwards.
OnClientDisconnect(w, c) ==
    LET w1 == TakeAndRemove(w, c)
        account_id == AccountId(w1, c)
        w2 == IF account_id # 0 /\ w1.all_clients[account_id] = c
              THEN [w1 EXCEPT !.all_clients[account_id] = None]
              ELSE w1
    IN [w2 EXCEPT !.clients[c].status = "gone"]

\* ------------------------------------------------------------------ bridge
\* The deadlines of on_disconnected, in seconds: a connection that lasted less
\* is reconnected only after QuickDisconnectDelay seconds.
DeadlineAuthenticated == 2

DeadlineUnauthenticated == 5

QuickDisconnectDelay == 10

\* The clamp of the backoff exponent in on_connection_error_helper.
MinBackoffExp == 1

MaxBackoffExp == 6

RECURSIVE Pow2(_)
Pow2(n) == IF n = 0 THEN 1 ELSE 2 * Pow2(n - 1)

Clamp(x, lo, hi) == IF x < lo THEN lo ELSE IF x > hi THEN hi ELSE x

\* BridgeHandler::new, after on_launch has called bridge.connect().  pos: the
\* connection is being established ("connecting"), is up ("connected"), or
\* delay_reconnect is asleep for `wait` seconds ("sleeping").
NewBridge ==
    [authenticated |-> FALSE, reconnect_attempt |-> 0, conn_started |-> FALSE,
     pos |-> "connecting", wait |-> 0]

\* BridgeHandler::delay_reconnect up to its sleep
DelayReconnect(w, delay) == [w EXCEPT !.bridge.pos = "sleeping", !.bridge.wait = delay]

\* Faulty variant of on_connection_error_helper: the exponent is not clamped.
OnConnectionErrorHelperUnclamped(w) ==
    DelayReconnect([w EXCEPT !.bridge.reconnect_attempt = @ + 1],
                   Pow2(w.bridge.reconnect_attempt + 1))

\* BridgeHandler::on_connection_error_helper
OnConnectionErrorHelper(w) ==
    LET attempt_count == w.bridge.reconnect_attempt + 1
        wait_time == Pow2(Clamp(attempt_count, MinBackoffExp, MaxBackoffExp))
    IN DelayReconnect([w EXCEPT !.bridge.reconnect_attempt = attempt_count], wait_time)

\* Faulty variant of the `if let Err` around connect(): the error is dropped
\* and nothing is scheduled.
TryConnectGiveUp(w, connect_ok) ==
    IF connect_ok THEN [w EXCEPT !.bridge.pos = "connecting", !.bridge.wait = 0]
    ELSE [w EXCEPT !.bridge.pos = "down", !.bridge.wait = 0]

\* client.connect(url) and the `if let Err` around it; connect_ok: the call
\* returns Ok and the connection is being established.
TryConnect(w, connect_ok) ==
    IF connect_ok THEN [w EXCEPT !.bridge.pos = "connecting", !.bridge.wait = 0]
    ELSE OnConnectionErrorHelper(w)

\* BridgeHandler::on_connected
OnConnected(w) ==
    [w EXCEPT !.bridge.conn_started = TRUE,
              !.bridge.reconnect_attempt = 0,
              !.bridge.pos = "connected"]

\* Faulty variant of destroy_bridge_values: the token issuer is kept.
DestroyBridgeValuesKeepIssuer(w) == [w EXCEPT !.script_signer = FALSE]

\* ConnectionHandler::destroy_bridge_values
DestroyBridgeValues(w) == [w EXCEPT !.token_issuer = FALSE, !.script_signer = FALSE]

\* Faulty variant of on_disconnected: a short connection is retried at once.
OnDisconnectedNoDelay(w, elapsed, connect_ok) ==
    TryConnect([DestroyBridgeValues(w) EXCEPT !.bridge.authenticated = FALSE,
                                              !.bridge.conn_started = FALSE],
               connect_ok)

\* BridgeHandler::on_disconnected up to the sleep of delay_reconnect; elapsed:
\* the seconds since conn_started
OnDisconnected(w, elapsed, connect_ok) ==
    LET was_authenticated == w.bridge.authenticated
        w1 == [DestroyBridgeValues(w) EXCEPT !.bridge.authenticated = FALSE,
                                             !.bridge.conn_started = FALSE]
        conn_duration == IF w.bridge.conn_started THEN elapsed ELSE 0
        deadline == IF was_authenticated THEN DeadlineAuthenticated ELSE DeadlineUnauthenticated
    IN IF conn_duration < deadline
       THEN DelayReconnect(w1, QuickDisconnectDelay)
       ELSE TryConnect(w1, connect_ok)

\* BridgeHandler::on_recv_data, LoginOk: init_bridge_things and set_authenticated(true)
OnLoginOk(w) ==
    [w EXCEPT !.token_issuer = TRUE, !.script_signer = TRUE, !.bridge.authenticated = TRUE]

\* Faulty variant of handle_room_created: no acknowledgement is sent.
HandleRoomCreatedNoAck(w, room_id, passcode, owner) ==
    IF ~w.bridge.authenticated THEN w
    ELSE [w EXCEPT !.all_rooms = MapPut(@, room_id, [passcode |-> passcode, owner |-> owner])]

\* BridgeHandler::handle_room_created
HandleRoomCreated(w, room_id, passcode, owner) ==
    IF ~w.bridge.authenticated THEN w
    ELSE Send([w EXCEPT !.all_rooms = MapPut(@, room_id, [passcode |-> passcode, owner |-> owner])],
              [to |-> None, kind |-> "RoomCreatedAck", room_id |-> room_id])

\* Faulty variant of handle_room_deleted: the sessions of the room are taken
\* out of the registry as well.
HandleRoomDeletedWithSessions(w, room_id) ==
    IF ~w.bridge.authenticated THEN w
    ELSE [w EXCEPT !.all_rooms = MapDel(@, room_id),
                   !.sessions = [sid \in DOMAIN @ |->
                                    IF RoomId(sid) = room_id THEN None ELSE @[sid]]]

\* BridgeHandler::handle_room_deleted
HandleRoomDeleted(w, room_id) ==
    IF ~w.bridge.authenticated THEN w
    ELSE [w EXCEPT !.all_rooms = MapDel(@, room_id)]

\* ------------------------------------------------------------------ event codec
\* The type ids of the events.
EVENT_GLOBED_BASE == 61440

EVENT_COUNTER_CHANGE == 61441

EVENT_PLAYER_JOIN == 61442

EVENT_PLAYER_LEAVE == 61443

EVENT_SCR_SPAWN_GROUP == 61456

EVENT_SCR_SET_ITEM == 61457

EVENT_SCR_REQUEST_SCRIPT_LOGS == 61458

EVENT_SCR_MOVE_GROUP == 61459

EVENT_SCR_MOVE_GROUP_ABSOLUTE == 61460

EVENT_SCR_FOLLOW_PLAYER == 61461

EVENT_SCR_FOLLOW_ROTATION == 61462

EVENT_2P_LINK_REQUEST == 61696

EVENT_2P_UNLINK == 61697

EVENT_SWITCHEROO_FULL_STATE == 61952

EVENT_SWITCHEROO_SWITCH == 61953

\* ByteWriter::write_u16: little endian
WriteU16(n) == <<n % 256, n \div 256>>

\* ByteWriter::write_i32: the four bytes of the two's complement of v, little
\* endian; the sign bit is added apart so that no value leaves the i32 range.
WriteI32(v) ==
    LET low == IF v >= 0 THEN v ELSE v + I32Max + 1
    IN <<low % 256, (low \div 256) % 256, (low \div 65536) % 256,
         (low \div 16777216) + (IF v < 0 THEN 128 ELSE 0)>>

\* ByteWriter::write_bool
WriteBool(b) == <<IF b THEN 1 ELSE 0>>

\* The i32 that four little-endian bytes hold (`raw_value as i32`, read_i32).
I32FromBytes(b) ==
    LET low == b[1] + 256 * b[2] + 65536 * b[3] + 16777216 * (b[4] % 128)
    IN IF b[4] >= 128 THEN low - I32Max - 1 ELSE low

\* `val as u64` for an i32: the sign is extended into the upper four bytes.
I32AsU64(v) == WriteI32(v) \o (IF v < 0 THEN <<255, 255, 255, 255>> ELSE <<0, 0, 0, 0>>)

\* `bits as u64` for a u32 given by its four bytes
U32AsU64(b) == b \o <<0, 0, 0, 0>>

\* The bitwise or of two bytes
RECURSIVE BitOr(_, _)
BitOr(a, b) ==
    IF a = 0 THEN b
    ELSE IF b = 0 THEN a
    ELSE 2 * BitOr(a \div 2, b \div 2) + (IF a % 2 = 1 \/ b % 2 = 1 THEN 1 ELSE 0)

\* f32::from_bits on four little-endian bytes, as the Float of the model plus
\* the bits themselves; val is exact for zero and for the integral values up
\* to 2^24, which are the finite floats the model uses.
F32FromBits(b) ==
    LET exp == (b[4] % 128) * 2 + b[3] \div 128
        mant == 8388608 + (b[3] % 128) * 65536 + b[2] * 256 + b[1]
        mag == IF exp < 127 \/ exp > 150 THEN 0 ELSE mant \div Pow2(150 - exp)
    IN [finite |-> exp # 255,
        val |-> IF b[4] >= 128 THEN -mag ELSE mag,
        bits |-> b]

\* f32::to_bits
F32ToBits(f) == f.bits

\* ByteReader: the bytes and the position of the next one.  A read that runs
\* past the end fails and leaves the position.
Remaining(data, pos) == Len(data) - pos + 1

ReadBytes(data, pos, n) ==
    IF Remaining(data, pos) >= n
    THEN [ok |-> TRUE, val |-> SubSeq(data, pos, pos + n - 1), pos |-> pos + n]
    ELSE [ok |-> FALSE, val |-> <<>>, pos |-> pos]

\* The result of a decoding step: Ok(event) or Err, and where the reader stands.
DecodeOk(event, pos) == [ok |-> TRUE, event |-> event, pos |-> pos]

DecodeErr(pos) == [ok |-> FALSE, event |-> [type |-> "None"], pos |-> pos]

\* The raw type byte of a counter change gives its CounterChangeType.
CounterChangeTypeOf(raw_type, raw_value) ==
    CASE raw_type = 0 -> [kind |-> "Set", val |-> I32FromBytes(raw_value)]
      [] raw_type = 1 -> [kind |-> "Add", val |-> I32FromBytes(raw_value)]
      [] raw_type = 2 -> [kind |-> "Multiply", f |-> F32FromBits(raw_value)]
      [] raw_type = 3 -> [kind |-> "Divide", f |-> F32FromBits(raw_value)]

\* The arguments of a scripted event: one bit of type_byte per argument, from
\* the high bit down; each argument is four bytes.
RECURSIVE DecodeScriptedArgs(_, _, _, _, _, _)
DecodeScriptedArgs(data, pos, count, type_byte, i, args) ==
    IF i = count THEN [ok |-> TRUE, val |-> args, pos |-> pos]
    ELSE LET r == ReadBytes(data, pos, 4)
             float == (type_byte \div Pow2(7 - i)) % 2 = 1
         IN IF ~r.ok THEN [ok |-> FALSE, val |-> args, pos |-> pos]
            ELSE DecodeScriptedArgs(data, r.pos, count, type_byte, i + 1,
                                    Append(args, [float |-> float, bits |-> r.val]))

\* Faulty variant of the counter change arm: the raw type byte is taken
\* modulo 4 instead of being checked.
DecodeCounterChangeAnyRawType(data, pos) ==
    LET r == ReadBytes(data, pos, 8)
    IN IF ~r.ok THEN DecodeErr(r.pos)
       ELSE DecodeOk([type |-> "CounterChange",
                      item_id |-> r.val[5] + 256 * r.val[6] + 65536 * r.val[7],
                      ctype |-> CounterChangeTypeOf(r.val[8] % 4, SubSeq(r.val, 1, 4))],
                     r.pos)

\* InEvent::decode, the EVENT_COUNTER_CHANGE arm
DecodeCounterChange(data, pos) ==
    LET r == ReadBytes(data, pos, 8)
    IN IF ~r.ok THEN DecodeErr(r.pos)
       ELSE LET raw_type == r.val[8]
                item_id == r.val[5] + 256 * r.val[6] + 65536 * r.val[7]
                raw_value == SubSeq(r.val, 1, 4)
            IN IF raw_type > 3 THEN DecodeErr(r.pos)
               ELSE DecodeOk([type |-> "CounterChange", item_id |-> item_id,
                              ctype |-> CounterChangeTypeOf(raw_type, raw_value)],
                             r.pos)

\* InEvent::decode(ty, reader), the reader standing at pos
InEventDecode(ty, data, pos) ==
    CASE ty = EVENT_COUNTER_CHANGE -> DecodeCounterChange(data, pos)
      [] ty = EVENT_SCR_REQUEST_SCRIPT_LOGS -> DecodeOk([type |-> "RequestScriptLogs"], pos)
      [] ty = EVENT_2P_LINK_REQUEST ->
           LET r1 == ReadBytes(data, pos, 4)
               r2 == ReadBytes(data, r1.pos, 1)
           IN IF ~r1.ok THEN DecodeErr(r1.pos)
              ELSE IF ~r2.ok THEN DecodeErr(r2.pos)
              ELSE DecodeOk([type |-> "TwoPlayerLinkRequest",
                             player_id |-> I32FromBytes(r1.val),
                             player1 |-> r2.val[1] # 0],
                            r2.pos)
      [] ty = EVENT_2P_UNLINK ->
           LET r == ReadBytes(data, pos, 4)
           IN IF ~r.ok THEN DecodeErr(r.pos)
              ELSE DecodeOk([type |-> "TwoPlayerUnlink", player_id |-> I32FromBytes(r.val)],
                            r.pos)
      [] ty = EVENT_SWITCHEROO_FULL_STATE ->
           LET r1 == ReadBytes(data, pos, 4)
               r2 == ReadBytes(data, r1.pos, 1)
           IN IF ~r1.ok THEN DecodeErr(r1.pos)
              ELSE IF ~r2.ok THEN DecodeErr(r2.pos)
              ELSE DecodeOk([type |-> "SwitcherooFullState",
                             active_player |-> I32FromBytes(r1.val), flags |-> r2.val[1]],
                            r2.pos)
      [] ty = EVENT_SWITCHEROO_SWITCH ->
           LET r1 == ReadBytes(data, pos, 4)
               r2 == ReadBytes(data, r1.pos, 1)
           IN IF ~r1.ok THEN DecodeErr(r1.pos)
              ELSE IF ~r2.ok THEN DecodeErr(r2.pos)
              ELSE DecodeOk([type |-> "SwitcherooSwitch",
                             player |-> I32FromBytes(r1.val), stype |-> r2.val[1]],
                            r2.pos)
      [] ty < EVENT_GLOBED_BASE ->
           LET r1 == ReadBytes(data, pos, 1)
               r2 == ReadBytes(data, r1.pos, 1)
           IN IF ~r1.ok THEN DecodeErr(r1.pos)
              ELSE IF r1.val[1] > 5 THEN DecodeErr(r1.pos)
              ELSE IF ~r2.ok THEN DecodeErr(r2.pos)
              ELSE LET a == DecodeScriptedArgs(data, r2.pos, r1.val[1], r2.val[1], 0, <<>>)
                   IN IF ~a.ok THEN DecodeErr(a.pos)
                      ELSE DecodeOk([type |-> "Scripted", r_type |-> ty, args |-> a.val], a.pos)
      [] OTHER -> DecodeErr(pos)

\* decode_event_array on the bytes of event_data: the events decoded so far
\* and the types rejected so far; ok is FALSE when reading a type id fails,
\* which fails the whole message.
RECURSIVE DecodeEventArray(_, _, _, _)
DecodeEventArray(data, pos, events, rejected) ==
    IF Remaining(data, pos) <= 0 THEN [ok |-> TRUE, events |-> events, rejected |-> rejected]
    ELSE LET t == ReadBytes(data, pos, 2)
         IN IF ~t.ok THEN [ok |-> FALSE, events |-> events, rejected |-> rejected]
            ELSE LET ty == t.val[1] + 256 * t.val[2]
                     d == InEventDecode(ty, data, t.pos)
                 IN IF d.ok
                    THEN DecodeEventArray(data, d.pos, Append(events, d.event), rejected)
                    ELSE DecodeEventArray(data, d.pos, events, Append(rejected, ty))

\* OutEvent::type_int
OutTypeInt(ev) ==
    CASE ev.type = "CounterChange" -> EVENT_COUNTER_CHANGE
      [] ev.type = "SpawnGroup" -> EVENT_SCR_SPAWN_GROUP
      [] ev.type = "SetItem" -> EVENT_SCR_SET_ITEM
      [] ev.type = "MoveGroup" -> EVENT_SCR_MOVE_GROUP
      [] ev.type = "MoveGroupAbsolute" -> EVENT_SCR_MOVE_GROUP_ABSOLUTE
      [] ev.type = "FollowPlayer" -> EVENT_SCR_FOLLOW_PLAYER
      [] ev.type = "FollowRotation" -> EVENT_SCR_FOLLOW_ROTATION
      [] ev.type = "TwoPlayerLinkRequest" -> EVENT_2P_LINK_REQUEST
      [] ev.type = "TwoPlayerUnlink" -> EVENT_2P_UNLINK
      [] ev.type = "SwitcherooFullState" -> EVENT_SWITCHEROO_FULL_STATE
      [] ev.type = "SwitcherooSwitch" -> EVENT_SWITCHEROO_SWITCH

\* The packed u64 of a counter change, as eight little-endian bytes:
\* (raw_type << 56) | (item_id << 32) | value
PackCounterChange(raw_type, item_id, value) ==
    <<value[1], value[2], value[3], value[4],
      BitOr(item_id % 256, value[5]),
      BitOr((item_id \div 256) % 256, value[6]),
      BitOr((item_id \div 65536) % 256, value[7]),
      BitOr(raw_type, value[8])>>

\* OutEvent::encode for the events with fixed-width payloads; the
\* CounterChangeType of a counter change is ev.ctype, or Set(ev.value).
OutEventEncode(ev) ==
    CASE ev.type = "CounterChange" ->
           LET t == IF "ctype" \in DOMAIN ev THEN ev.ctype ELSE [kind |-> "Set", val |-> ev.value]
               raw_type == CASE t.kind = "Set" -> 0 [] t.kind = "Add" -> 1
                             [] t.kind = "Multiply" -> 2 [] t.kind = "Divide" -> 3
               value == IF t.kind \in {"Set", "Add"} THEN I32AsU64(t.val)
                        ELSE U32AsU64(F32ToBits(t.f))
           IN PackCounterChange(raw_type, ev.item_id % 16777216, value)
      [] ev.type = "TwoPlayerLinkRequest" -> WriteI32(ev.player_id) \o WriteBool(ev.player1)
      [] ev.type = "TwoPlayerUnlink" -> WriteI32(ev.player_id)
      [] ev.type = "SwitcherooFullState" -> WriteI32(ev.active_player) \o <<ev.flags>>
      [] ev.type = "SwitcherooSwitch" -> WriteI32(ev.player) \o <<ev.stype>>
      [] ev.type \in {"FollowPlayer", "FollowRotation"} ->
           LET group == IF ev.enable THEN (ev.group % 32768) + 32768 ELSE ev.group % 32768
           IN WriteU16(group)
              \o (IF ev.type = "FollowRotation" THEN WriteU16(ev.center) ELSE <<>>)
              \o WriteI32(ev.player_id)

\* encode_event_array for one event: the type id, then the payload
EncodeEvent(ev) == WriteU16(OutTypeInt(ev)) \o OutEventEncode(ev)

\* ------------------------------------------------------------------ actions
\* The default of the configuration field verify_script_signatures
default_verify_script_signatures == TRUE

\* ConnectionHandler::new and the other constructors, but for the configuration
InitServer ==
    /\ clients = [c \in Clients |-> NewClient]
    /\ all_clients = [a \in Accounts |-> None]
    /\ sessions = [sid \in AllSessionIds |-> None]
    /\ objs = EmptyMap
    /\ token_issuer = FALSE
    /\ script_signer = FALSE
    /\ all_rooms = EmptyMap
    /\ heartbeats = EmptyMap
    /\ bridge = NewBridge
    /\ last = [op |-> "Init", client |-> None, ret |-> "Ok", sent |-> <<>>, events |-> <<>>,
               data |-> 0]

\* A server started with the default configuration
Init == InitServer /\ verify_script_signatures = default_verify_script_signatures

\* A server started with either value of verify_script_signatures
InitScript == InitServer /\ verify_script_signatures \in BOOLEAN

\* The bounds of the model: counter values and prio counters stay small.
WithinBounds(w) ==
    \A o \in DOMAIN w.objs :
        /\ \A i \in DOMAIN w.objs[o].values :
               w.objs[o].values[i] >= -MaxValue /\ w.objs[o].values[i] <= MaxValue
        /\ \A p \in DOMAIN w.objs[o].players : w.objs[o].players[p].prio_counter <= MaxPrio

\* The handler op has run for client c and left the world w; events: the
\* inbound events (or other inputs) of the message; data: the account id in
\* the PlayerState of a PlayerData message.
CommitData(w, op, c, events, data) ==
    /\ w.valid
    /\ WithinBounds(w)
    /\ \E f \in {DropUnreferenced(w)} :
          /\ clients' = f.clients
          /\ all_clients' = f.all_clients
          /\ sessions' = f.sessions
          /\ objs' = f.objs
          /\ token_issuer' = f.token_issuer
          /\ script_signer' = f.script_signer
          /\ verify_script_signatures' = f.verify_script_signatures
          /\ all_rooms' = f.all_rooms
          /\ heartbeats' = f.heartbeats
          /\ bridge' = f.bridge
    /\ last' = [op |-> op, client |-> c, ret |-> w.ret, sent |-> w.sent, events |-> events,
                data |-> data]

Commit(w, op, c, events) == CommitData(w, op, c, events, 0)

\* The connection of client c is up and its handler is between two messages.
Connected(c) == clients[c].status = "connected" /\ clients[c].pc = "idle"

\* on_client_connect: the transport accepts the next connection.
Connect(c) ==
    /\ clients[c].status = "fresh"
    /\ \A d \in Clients : d < c => clients[d].status # "fresh"
    /\ Commit([World EXCEPT !.clients[c].status = "connected"], "Connect", c, <<>>)

\* on_client_disconnect
Disconnect(c) ==
    /\ Connected(c)
    /\ Commit(OnClientDisconnect(World, c), "Disconnect", c, <<>>)

\* on_client_data, LoginUToken, with the account id and the validity of the
\* token drawn from accts and oks
LoginUToken(c, accts, oks) ==
    /\ Connected(c)
    /\ \E account_id \in accts, token_ok \in oks :
           Commit(HandleLoginAttempt(World, c, account_id, token_ok), "LoginUToken", c, <<>>)

\* The passcodes a join request for session_id carries: do_join_session reads
\* the passcode for sessions of rooms only.
JoinPasscodes(session_id) == IF RoomId(session_id) = 0 THEN {0} ELSE Passcodes

\* The orders in which add_player can iterate the counters of the session that
\* a join of session_id reaches.
JoinOrders(w, c, session_id, passcode) ==
    IF \/ ~Authorized(w, c)
       \/ CheckRoom(w, session_id, passcode) # "Ok"
       \/ w.sessions[session_id] = None
    THEN {<<>>}
    ELSE Orders(DOMAIN w.objs[w.sessions[session_id]].counters)

\* on_client_data, LoginUTokenAndJoin
LoginUTokenAndJoin(c, accts, oks, sids) ==
    /\ Connected(c)
    /\ \E account_id \in accts, token_ok \in oks, sid \in sids :
           LET w1 == HandleLoginAttempt(World, c, account_id, token_ok)
           IN IF w1.ret = "true"
              THEN \E passcode \in JoinPasscodes(sid) :
                   \E order \in JoinOrders(w1, c, sid, passcode) :
                      Commit(HandleJoinSession([w1 EXCEPT !.ret = "Ok"], c, sid, passcode, order),
                             "LoginUTokenAndJoin", c, <<>>)
              ELSE Commit([w1 EXCEPT !.ret = "Ok"], "LoginUTokenAndJoin", c, <<>>)

\* on_client_data, JoinSession
JoinSession(c, sids) ==
    /\ Connected(c)
    /\ \E sid \in sids :
          \E passcode \in JoinPasscodes(sid) :
             \E order \in JoinOrders(World, c, sid, passcode) :
                Commit(HandleJoinSession(World, c, sid, passcode, order), "JoinSession", c,
                       <<[session_id |-> sid, passcode |-> passcode]>>)

\* on_client_data, LeaveSession
LeaveSession(c) ==
    /\ Connected(c)
    /\ Commit(HandleLeaveSession(World, c), "LeaveSession", c, <<>>)

\* on_client_data, SendLevelScript, with the scripts of the message drawn from
\* script_lists and the outcome of the scripting engine's start from oks
SendLevelScript(c, script_lists, oks) ==
    /\ Connected(c)
    /\ \E scripts \in script_lists, engine_ok \in oks :
          Commit(HandleSendLevelScript(World, c, scripts, engine_ok), "SendLevelScript", c,
                 <<[scripts |-> scripts, engine_ok |-> engine_ok]>>)

\* JoinSession in two steps, for the interleaving with the handlers of other
\* connections: first everything up to the seeding of the new player state,
JoinSnapshot(c, sids) ==
    /\ Connected(c)
    /\ \E sid \in sids :
          \E passcode \in JoinPasscodes(sid) :
             \E order \in JoinOrders(World, c, sid, passcode) :
                Commit(HandleJoinSnapshot(World, c, sid, passcode, order), "JoinSnapshot", c,
                       <<[session_id |-> sid, passcode |-> passcode]>>)

\* then the insertion into the players map.
JoinInsert(c) ==
    /\ clients[c].status = "connected" /\ clients[c].pc = "insert"
    /\ Commit(HandleJoinInsert(World, c), "JoinInsert", c, <<>>)

\* LeaveSession in two steps, for the interleaving with the handlers of other
\* connections: first the player is removed,
LeaveTake(c) ==
    /\ Connected(c)
    /\ Commit(HandleLeaveTake(World, c), "LeaveTake", c, <<>>)

\* then delete_session_if_empty looks at the session.
LeaveDelete(c) ==
    /\ clients[c].status = "connected" /\ clients[c].pc = "delete"
    /\ Commit(HandleLeaveDelete(World, c), "LeaveDelete", c,
              <<[session_id |-> objs[clients[c].leaving].id]>>)

\* The scripting engine of a session asks for heartbeats: schedule_heartbeat.
ScheduleHeartbeat ==
    \E o \in DOMAIN objs :
        /\ objs[o].id \notin DOMAIN heartbeats
        /\ Commit(ScheduleHeartbeatFor(World, o), "ScheduleHeartbeat", None, <<>>)

\* The choices pop_counter_changes and for_every_player have in
\* handle_player_data, once the inbound events have been applied.
PlayerDataChoices(w, c, data, events) ==
    IF ~Authorized(w, c) \/ Spoofed(w, c, data) \/ w.clients[c].session = None
    THEN {[picked |-> {}, order |-> <<>>]}
    ELSE LET s == HandleEvents(w, c, w.clients[c].session, events, 1).objs[w.clients[c].session]
             player == IF data.account_id \in DOMAIN s.players THEN s.players[data.account_id]
                       ELSE NewPlayerState(0)
         IN {[picked |-> pk, order |-> ord] :
                pk \in PopChoices(player, MAX_EVENT_COUNT),
                ord \in Orders((DOMAIN s.players) \cup {data.account_id})}

\* on_client_data, PlayerData, with data.account_id drawn from accts and the
\* inbound events from evlists
PlayerData(c, accts, evlists) ==
    /\ Connected(c)
    /\ \E account_id \in accts, events \in evlists :
          \E ch \in PlayerDataChoices(World, c, [account_id |-> account_id], events) :
             \E w \in {HandlePlayerData(World, c, [account_id |-> account_id], events,
                                        ch.picked, ch.order)} :
                 CommitData(w, "PlayerData", c,
                            IF w.ret = "Ok" /\ w.sent = <<>> THEN <<>> ELSE events, account_id)

\* PlayerData with one CounterChange in two steps, for the interleaving with
\* the handlers of other connections: first up to the return of handle_change,
ChangeApply(c, evs) ==
    /\ Connected(c)
    /\ \E event \in evs :
          CommitData(HandlePlayerDataApply(World, c, [account_id |-> AccountId(World, c)], event),
                     "ChangeApply", c, <<event>>, AccountId(World, c))

\* then from notify_counter_change on.
ChangeNotify(c) ==
    /\ clients[c].status = "connected" /\ clients[c].pc = "notify"
    /\ LET data == [account_id |-> AccountId(World, c)]
       IN \E ch \in PlayerDataChoices(NotifyPending(World, c), c, data, <<>>) :
             CommitData(HandlePlayerDataNotify(World, c, data, ch.picked, ch.order),
                        "ChangeNotify", c, <<>>, data.account_id)

\* on_client_data, PlayerData, of a message without inbound events in a
\* session, with MAX_EVENT_COUNT at WideEventCount: update_player installs the
\* state and drains the queues; of the frame, the step records the events.
PollWide(c) ==
    /\ Connected(c)
    /\ Authorized(World, c)
    /\ clients[c].session # None
    /\ LET o == clients[c].session
           id == AccountId(World, c)
           player == IF id \in DOMAIN objs[o].players THEN objs[o].players[id]
                     ELSE NewPlayerState(0)
       IN \E picked \in PopChoices(player, WideEventCount) :
             LET up == UpdatePlayerMax(objs[o], [account_id |-> id], <<>>, picked,
                                       WideEventCount)
             IN /\ up.valid
                /\ CommitData(Send([World EXCEPT !.objs[o] = up.s],
                                   [to |-> c, kind |-> "LevelData", events |-> up.out,
                                    reliable |-> Reliable(up.out)]),
                              "PollWide", c, <<>>, id)

\* on_client_data, PlayerData, with the object data of the PlayerState drawn
\* from kinds and the camera from cameras; the message carries no event.
PlayerDataCam(c, accts, kinds, cameras) ==
    /\ Connected(c)
    /\ \E account_id \in accts, data_kind \in kinds, camera_range \in cameras :
          LET data == [account_id |-> account_id, data_kind |-> data_kind]
          IN \E ch \in PlayerDataChoices(World, c, data, <<>>) :
                CommitData(HandlePlayerDataCam(World, c, data, camera_range, <<>>,
                                               ch.picked, ch.order),
                           "PlayerDataCam", c, <<[camera_range |-> camera_range]>>, account_id)

\* What a client puts into event_data for one event: the type id, the payload
\* bytes, and the inbound event it means by them (type "None": none that
\* InEvent has a place for).
WireEvent(ty, payload, event) == [ty |-> ty, payload |-> payload, event |-> event]

\* The client's side of the counter change layout: type:8 | item_id:24 | value:32
WireCounterChange(raw_type, item_id, val) ==
    WireEvent(EVENT_COUNTER_CHANGE,
              WriteI32(val) \o <<item_id % 256, (item_id \div 256) % 256, item_id \div 65536, raw_type>>,
              IF raw_type = 0 THEN [type |-> "CounterChange", item_id |-> item_id,
                                    ctype |-> [kind |-> "Set", val |-> val]]
              ELSE IF raw_type = 1 THEN [type |-> "CounterChange", item_id |-> item_id,
                                         ctype |-> [kind |-> "Add", val |-> val]]
              ELSE [type |-> "None"])

WireUnlink(player_id) ==
    WireEvent(EVENT_2P_UNLINK, WriteI32(player_id), [type |-> "TwoPlayerUnlink", player_id |-> player_id])

\* The type ids of the events that only the server emits.
ServerOnlyTypes ==
    {EVENT_PLAYER_JOIN, EVENT_PLAYER_LEAVE, EVENT_SCR_SPAWN_GROUP, EVENT_SCR_SET_ITEM,
     EVENT_SCR_MOVE_GROUP, EVENT_SCR_MOVE_GROUP_ABSOLUTE, EVENT_SCR_FOLLOW_PLAYER,
     EVENT_SCR_FOLLOW_ROTATION}

\* Type ids that no event has: the base itself and the last u16.
UnknownTypes == {EVENT_GLOBED_BASE, 65535}

\* The bytes of event_data for a sequence of wire events
RECURSIVE WireBytes(_)
WireBytes(items) ==
    IF items = <<>> THEN <<>>
    ELSE WriteU16(Head(items).ty) \o Head(items).payload \o WireBytes(Tail(items))

\* on_client_data, PlayerData, with event_data given as wire events drawn from
\* streams: decode_event_array, then handle_player_data.
PlayerDataWire(c, accts, streams) ==
    /\ Connected(c)
    /\ \E account_id \in accts, items \in streams :
          LET d == DecodeEventArray(WireBytes(items), 1, <<>>, <<>>)
          IN IF ~d.ok
             THEN CommitData([World EXCEPT !.ret = "DecodeError"], "PlayerDataWire", c,
                             items, account_id)
             ELSE \E ch \in PlayerDataChoices(World, c, [account_id |-> account_id], d.events) :
                     CommitData(HandlePlayerData(World, c, [account_id |-> account_id],
                                                 d.events, ch.picked, ch.order),
                                "PlayerDataWire", c, items, account_id)

\* An event is encoded as encode_event_array does and the bytes are decoded as
\* decode_event_array does; the step records the event, the decoded events
\* and whether anything was rejected.
CodecRoundTrip(out_events) ==
    \E ev \in out_events :
        LET d == DecodeEventArray(EncodeEvent(ev), 1, <<>>, <<>>)
        IN Commit([World EXCEPT !.sent = d.events,
                                !.ret = IF d.ok /\ d.rejected = <<>> THEN "Ok" ELSE "Rejected"],
                  "RoundTrip", None, <<ev>>)

\* TriggerManager::handle_change is called on a trigger manager that holds
\* `values` with the change cc, both drawn from inputs; the step records the
\* inputs, the pair returned and the values held afterwards.
TriggerChange(inputs) ==
    \E in \in inputs :
        LET new == HandleChange(in.values, in.change)
        IN Commit(Send(World, [item_id |-> in.change.item_id,
                               value |-> new[in.change.item_id],
                               values |-> new]),
                  "HandleChange", None, <<in>>)

\* The bridge's connection to the central server is up: on_connected.
BridgeConnected ==
    /\ bridge.pos = "connecting"
    /\ Commit(OnConnected(World), "BridgeConnected", None, <<>>)

\* The bridge receives LoginOk from the central server.
BridgeLoginOk ==
    /\ bridge.pos = "connected"
    /\ ~bridge.authenticated
    /\ Commit(OnLoginOk(World), "BridgeLoginOk", None, <<>>)

\* The bridge's connection is lost after `elapsed` seconds: on_disconnected,
\* with the elapsed time drawn from durations and the outcome of an immediate
\* connect() from oks.
BridgeDisconnected(durations, oks) ==
    /\ bridge.pos = "connected"
    /\ \E elapsed \in durations, connect_ok \in oks :
          /\ connect_ok \/ bridge.reconnect_attempt < MaxAttempts
          /\ Commit(OnDisconnected(World, elapsed, connect_ok), "BridgeDisconnected", None,
                    <<[elapsed |-> elapsed, connect_ok |-> connect_ok,
                       was_authenticated |-> bridge.authenticated]>>)

\* The connection could not be established: on_connection_error.
BridgeConnectionError ==
    /\ bridge.pos = "connecting"
    /\ bridge.reconnect_attempt < MaxAttempts
    /\ Commit(OnConnectionErrorHelper(World), "BridgeConnectionError", None, <<>>)

\* The sleep of delay_reconnect is over: connect(), with its outcome drawn from oks.
BridgeWake(oks) ==
    /\ bridge.pos = "sleeping"
    /\ \E connect_ok \in oks :
          /\ connect_ok \/ bridge.reconnect_attempt < MaxAttempts
          /\ Commit(TryConnect(World, connect_ok), "BridgeWake", None,
                    <<[connect_ok |-> connect_ok]>>)

\* The bridge receives NotifyRoomCreated.
NotifyRoomCreated(owners) ==
    /\ bridge.pos = "connected"
    /\ \E room_id \in RoomIds, passcode \in Passcodes, owner \in owners :
          Commit(HandleRoomCreated(World, room_id, passcode, owner), "NotifyRoomCreated", None,
                 <<[room_id |-> room_id, passcode |-> passcode, owner |-> owner]>>)

\* The bridge receives NotifyRoomDeleted.
NotifyRoomDeleted ==
    /\ bridge.pos = "connected"
    /\ \E room_id \in RoomIds :
          Commit(HandleRoomDeleted(World, room_id), "NotifyRoomDeleted", None,
                 <<[room_id |-> room_id]>>)

\* The times a connection to the central server lasts, in seconds: on both
\* sides of each deadline.
Durations ==
    {0, DeadlineAuthenticated - 1, DeadlineAuthenticated,
     DeadlineUnauthenticated - 1, DeadlineUnauthenticated}

\* The whole server: any client logs in as any account, with a good or a bad
\* token, and joins any session; PlayerData carries no inbound event.
MainEventLists == {<<>>}

Next ==
    \/ \E c \in Clients : Connect(c)
    \/ \E c \in Clients : Disconnect(c)
    \/ \E c \in Clients : LoginUToken(c, Accounts, BOOLEAN)
    \/ \E c \in Clients : LoginUTokenAndJoin(c, Accounts, BOOLEAN, SessionIds)
    \/ \E c \in Clients : JoinSession(c, SessionIds)
    \/ \E c \in Clients : LeaveSession(c)
    \/ \E c \in Clients : PlayerData(c, Accounts, MainEventLists)
    \/ BridgeConnected
    \/ BridgeLoginOk
    \/ BridgeDisconnected({DeadlineUnauthenticated}, {TRUE})

Spec == Init /\ [][Next]_vars

\* Client c plays account c.
Players == {c \in Clients : c <= NumAccounts}

\* The counters of one session in depth: the players join and leave session 1;
\* player 1 changes counters (item 1 is set to 0 or incremented, the other
\* items are incremented), the other players only report their state.
CounterEventLists ==
    {<<>>} \cup {<<e>> : e \in {x \in InEvents : /\ x.type = "CounterChange"
                                                 /\ (x.item_id = 1 \/ x.ctype.kind = "Add")}}

NextSession ==
    \/ \E c \in Players : Connect(c)
    \/ \E c \in Players : LoginUToken(c, {c}, {TRUE})
    \/ \E c \in Players : JoinSession(c, {1})
    \/ \E c \in Players : LeaveSession(c)
    \/ \E c \in Players : PlayerData(c, {c}, IF c = 1 THEN CounterEventLists ELSE {<<>>})
    \/ BridgeConnected
    \/ BridgeLoginOk

SpecSession == Init /\ [][NextSession]_vars

\* Both unread queues of one session: player 1 increments counters and sends
\* two-player events to the other players, who only report their state.
QueueEventLists ==
    {<<>>} \cup {<<e>> : e \in {x \in InEvents :
                                \/ x.type = "CounterChange" /\ x.ctype.kind = "Add"
                                \/ x.type = "TwoPlayerUnlink" /\ x.player_id # 1}}

NextQueues ==
    \/ \E c \in Players : Connect(c)
    \/ \E c \in Players : LoginUToken(c, {c}, {TRUE})
    \/ \E c \in Players : JoinSession(c, {1})
    \/ \E c \in Players : PlayerData(c, {c}, IF c = 1 THEN QueueEventLists ELSE {<<>>})
    \/ BridgeConnected
    \/ BridgeLoginOk

SpecQueues == Init /\ [][NextQueues]_vars

\* Joining concurrently: the players join session 1 in two steps each, so that
\* the counter changes of player 1 and the leaving of a player run between
\* the steps of another player's join.
JoinRaceEventLists ==
    {<<>>} \cup {<<e>> : e \in {x \in InEvents : /\ x.type = "CounterChange"
                                                 /\ x.item_id = 1
                                                 /\ x.ctype.kind = "Add"}}

NextJoinRace ==
    \/ \E c \in Players : Connect(c)
    \/ \E c \in Players : LoginUToken(c, {c}, {TRUE})
    \/ \E c \in Players : JoinSnapshot(c, {1})
    \/ \E c \in Players : JoinInsert(c)
    \/ \E c \in Players : LeaveSession(c)
    \/ PlayerData(1, {1}, JoinRaceEventLists)
    \/ BridgeConnected
    \/ BridgeLoginOk

SpecJoinRace == Init /\ [][NextJoinRace]_vars

\* Changing a counter concurrently: both players of session 1 send counter
\* changes for item 1, each handled in two steps.
ChangeRaceEvents ==
    {x \in InEvents : /\ x.type = "CounterChange" /\ x.item_id = 1
                      /\ x.ctype.kind \in {"Add", "Set"}}

NextChangeRace ==
    \/ \E c \in Players : Connect(c)
    \/ \E c \in Players : LoginUToken(c, {c}, {TRUE})
    \/ \E c \in Players : JoinSession(c, {1})
    \/ \E c \in Players : ChangeApply(c, ChangeRaceEvents)
    \/ \E c \in Players : ChangeNotify(c)
    \/ BridgeConnected
    \/ BridgeLoginOk

SpecChangeRace == Init /\ [][NextChangeRace]_vars

\* Draining the queues: player 1 changes counters and sends link requests to
\* player 2 as first and as second player; the players poll with frames
\* that hold WideEventCount events.
DrainEventLists ==
    {<<e>> : e \in {x \in InEvents :
                       \/ x.type = "CounterChange" /\ x.ctype.kind = "Add"
                       \/ x.type = "TwoPlayerLinkRequest" /\ x.player_id = 2}}

NextDrain ==
    \/ \E c \in Players : Connect(c)
    \/ \E c \in Players : LoginUToken(c, {c}, {TRUE})
    \/ \E c \in Players : JoinSession(c, {1})
    \/ PlayerData(1, {1}, DrainEventLists)
    \/ \E c \in Players : PollWide(c)
    \/ BridgeConnected
    \/ BridgeLoginOk

SpecDrain == Init /\ [][NextDrain]_vars

\* Counter arithmetic: trigger managers that have never seen item 1 or hold a
\* small value or an end of the i32 range for it; Set and Add with values at
\* both ends of the range; Multiply and Divide with the factors 1.0, 2.0,
\* -2.0, 0.0, -0.0, +inf, -inf and NaN.  A finite factor other than zero meets
\* the small values only, where the f32 arithmetic is exact.
TriggerEntries == {0, 7, -7, I32Max, -I32Max - 1}

TriggerOperands == {0, 1, -1, I32Max, -I32Max - 1}

TriggerValues == {EmptyMap} \cup {MapPut(EmptyMap, 1, v) : v \in TriggerEntries}

TriggerFloats ==
    {F32FromBits(b) : b \in {<<0, 0, 128, 63>>, <<0, 0, 0, 64>>, <<0, 0, 0, 192>>, <<0, 0, 0, 0>>,
                             <<0, 0, 0, 128>>, <<0, 0, 128, 127>>, <<0, 0, 128, 255>>,
                             <<0, 0, 192, 127>>}}

TriggerInputs ==
    {[values |-> m, change |-> [type |-> "CounterChange", item_id |-> 1,
                                ctype |-> [kind |-> k, val |-> v]]] :
        m \in TriggerValues, k \in {"Set", "Add"}, v \in TriggerOperands}
    \cup {in \in {[values |-> m, change |-> [type |-> "CounterChange", item_id |-> 1,
                                             ctype |-> [kind |-> k, f |-> f]]] :
                     m \in TriggerValues, k \in {"Multiply", "Divide"}, f \in TriggerFloats} :
             \/ ~in.change.ctype.f.finite
             \/ in.change.ctype.f.val = 0
             \/ in.values \in {EmptyMap, MapPut(EmptyMap, 1, 0), MapPut(EmptyMap, 1, 7),
                               MapPut(EmptyMap, 1, -7)}}

NextTrigger ==
    \/ TriggerChange(TriggerInputs)
    \/ \E c \in Clients : Connect(c)
    \/ BridgeConnected
    \/ BridgeLoginOk

SpecTrigger == Init /\ [][NextTrigger]_vars

\* Level scripts: the central server creates the room for owner 1, the players
\* join the public session 1 or the room's session, and send scripts with and
\* without a main script, with good and bad signatures, while the bridge
\* comes and goes.
Scripts == {[main |-> m, signed |-> g] : m \in BOOLEAN, g \in BOOLEAN}

ScriptLists ==
    {<<>>} \cup {<<x>> : x \in Scripts}
           \cup {<<[main |-> TRUE, signed |-> TRUE], y>> : y \in {z \in Scripts : ~z.main}}

NextScript ==
    \/ \E c \in Players : Connect(c)
    \/ \E c \in Players : LoginUToken(c, {c}, {TRUE})
    \/ \E c \in Players : JoinSession(c, {1} \cup RoomSessionIds)
    \/ \E c \in Players : LeaveSession(c)
    \/ \E c \in Players : SendLevelScript(c, ScriptLists, BOOLEAN)
    \/ BridgeConnected
    \/ BridgeLoginOk
    \/ BridgeDisconnected({DeadlineUnauthenticated}, {TRUE})
    \/ NotifyRoomCreated({1})

SpecScript == InitScript /\ [][NextScript]_vars

\* Sessions of rooms: the central server creates and deletes the room, the
\* players join the public session 1 and the room's session with any passcode.
NextRooms ==
    \/ \E c \in Players : Connect(c)
    \/ \E c \in Players : LoginUToken(c, {c}, {TRUE})
    \/ \E c \in Players : JoinSession(c, {1} \cup RoomSessionIds)
    \/ \E c \in Players : LeaveSession(c)
    \/ BridgeConnected
    \/ BridgeLoginOk
    \/ NotifyRoomCreated({1})
    \/ NotifyRoomDeleted

SpecRooms == Init /\ [][NextRooms]_vars

\* Authorization: the clients log in as any account (a second login as the
\* same account deauthorizes the first client), join session 1, leave it, and
\* send PlayerData with any account id and an unlink event for any player, or
\* with an account id that is not their own and a change of counter 1.
AuthEventLists == {<<>>} \cup {<<e>> : e \in {x \in InEvents : x.type = "TwoPlayerUnlink"}}

ForeignEventLists ==
    {<<e>> : e \in {x \in InEvents : x.type = "CounterChange" /\ x.item_id = 1}}

NextAuth ==
    \/ \E c \in Players : Connect(c)
    \/ \E c \in Players : LoginUToken(c, Accounts, {TRUE})
    \/ \E c \in Players : LoginUTokenAndJoin(c, Accounts, {TRUE}, {1})
    \/ \E c \in Players : JoinSession(c, {1})
    \/ \E c \in Players : LeaveSession(c)
    \/ \E c \in Players : PlayerData(c, Accounts, AuthEventLists)
    \/ \E c \in Players : PlayerData(c, Accounts \ {clients[c].account_data}, ForeignEventLists)
    \/ BridgeConnected
    \/ BridgeLoginOk

SpecAuth == Init /\ [][NextAuth]_vars

\* Two-player events: player 1 sends link requests and unlinks to any player
\* of session 1 (itself included), the other players only report their state.
LinkEventLists ==
    {<<>>} \cup {<<e>> : e \in {x \in InEvents :
                                x.type \in {"TwoPlayerLinkRequest", "TwoPlayerUnlink"}}}

NextLink ==
    \/ \E c \in Players : Connect(c)
    \/ \E c \in Players : LoginUToken(c, {c}, {TRUE})
    \/ \E c \in Players : JoinSession(c, {1})
    \/ \E c \in Players : LeaveSession(c)
    \/ \E c \in Players : PlayerData(c, {c}, IF c = 1 THEN LinkEventLists ELSE {<<>>})
    \/ BridgeConnected
    \/ BridgeLoginOk

SpecLink == Init /\ [][NextLink]_vars

\* Leaving concurrently: the players join session 1 and leave it in two steps
\* each, so that the delete_session_if_empty of one handler runs between the
\* steps of another; sessions are in the heartbeat set or not.
NextRace ==
    \/ \E c \in Players : Connect(c)
    \/ \E c \in Players : LoginUToken(c, {c}, {TRUE})
    \/ \E c \in Players : JoinSession(c, {1})
    \/ \E c \in Players : LeaveTake(c)
    \/ \E c \in Players : LeaveDelete(c)
    \/ ScheduleHeartbeat
    \/ BridgeConnected
    \/ BridgeLoginOk

SpecRace == Init /\ [][NextRace]_vars

\* The bridge in depth: connections to the central server fail, succeed and
\* are lost after any of the durations, and connect() itself succeeds or
\* fails; meanwhile the players connect and log in.
NextBridge ==
    \/ BridgeConnected
    \/ BridgeConnectionError
    \/ BridgeWake(BOOLEAN)
    \/ BridgeLoginOk
    \/ BridgeDisconnected(Durations, BOOLEAN)
    \/ \E c \in Players : Connect(c)
    \/ \E c \in Players : LoginUToken(c, {c}, {TRUE})

SpecBridge == Init /\ [][NextBridge]_vars

\* The event codec in depth: the players join session 1 and player 1 sends
\* PlayerData whose event_data holds up to MAX_EVENT_COUNT + 1 wire events:
\* valid counter changes and unlinks, counter changes with a raw type byte
\* above 3, and type ids of server-only and unknown events.
CodecWireEvents ==
    {WireCounterChange(0, 1, 1), WireCounterChange(4, 1, 1), WireCounterChange(255, 1, 1)}
    \cup {WireUnlink(p) : p \in Accounts \ {1}}
    \cup {WireEvent(ty, <<>>, [type |-> "None"]) : ty \in ServerOnlyTypes \cup UnknownTypes}

\* After the first event of a message come these.
CodecTailEvents ==
    {WireCounterChange(0, 1, 1), WireCounterChange(4, 1, 1)}

CodecStreams ==
    {items \in UNION {[1..n -> CodecWireEvents] : n \in 0..(MAX_EVENT_COUNT + 1)} :
        \A i \in 2..Len(items) : items[i] \in CodecTailEvents}

\* The events that are encoded and decoded again: counter changes with item
\* ids and values at both ends of their ranges and with float factors 2.0,
\* -1.0 and NaN, and the other events that both OutEvent and InEvent have.
CodecValues == {0, 1, -1, I32Max, -I32Max - 1}

CodecFloats == {F32FromBits(<<0, 0, 0, 64>>), F32FromBits(<<0, 0, 128, 191>>),
                F32FromBits(<<0, 0, 192, 127>>)}

CodecItems == {1, 16777215}

CodecOutEvents ==
    {[type |-> "CounterChange", item_id |-> i, ctype |-> [kind |-> k, val |-> v]] :
        i \in CodecItems, k \in {"Set", "Add"}, v \in CodecValues}
    \cup {[type |-> "CounterChange", item_id |-> i, ctype |-> [kind |-> k, f |-> f]] :
        i \in CodecItems, k \in {"Multiply", "Divide"}, f \in CodecFloats}
    \cup {[type |-> "TwoPlayerLinkRequest", player_id |-> v, player1 |-> b] :
        v \in CodecValues, b \in BOOLEAN}
    \cup {[type |-> "TwoPlayerUnlink", player_id |-> v] : v \in CodecValues}
    \cup {[type |-> "SwitcherooFullState", active_player |-> v, flags |-> b] :
        v \in CodecValues, b \in {0, 255}}
    \cup {[type |-> "SwitcherooSwitch", player |-> v, stype |-> b] :
        v \in CodecValues, b \in {0, 255}}

\* Culling: the players join session 1 and report single or dual objects at
\* (3,4), (3,3) and (6,0), seen through a camera of radius 5 around the
\* origin, which has (3,4) on its border, or of radius 1 around (3,4).
CameraKinds ==
    {SingleData(Point(3, 4)), SingleData(Point(3, 3)),
     DualData(Point(3, 4), Point(6, 0)), DualData(Point(6, 0), Point(3, 3))}

Cameras == {CameraRange(0, 0, 5), CameraRange(3, 4, 1)}

NextCamera ==
    \/ \E c \in Players : Connect(c)
    \/ \E c \in Players : LoginUToken(c, {c}, {TRUE})
    \/ \E c \in Players : JoinSession(c, {1})
    \/ \E c \in Players : PlayerDataCam(c, {c}, CameraKinds, Cameras)
    \/ BridgeConnected
    \/ BridgeLoginOk

SpecCamera == Init /\ [][NextCamera]_vars

\* The two halves of the codec against each other, while clients connect and
\* the bridge logs in.
NextRoundTrip ==
    \/ CodecRoundTrip(CodecOutEvents)
    \/ \E c \in Clients : Connect(c)
    \/ BridgeConnected
    \/ BridgeLoginOk

SpecRoundTrip == Init /\ [][NextRoundTrip]_vars

NextCodec ==
    \/ \E c \in Players : Connect(c)
    \/ \E c \in Players : LoginUToken(c, {c}, {TRUE})
    \/ \E c \in Players : JoinSession(c, {1})
    \/ PlayerDataWire(1, {1}, CodecStreams)
    \/ BridgeConnected
    \/ BridgeLoginOk

SpecCodec == Init /\ [][NextCodec]_vars

\* ------------------------------------------------------------------ properties
\* The LevelData frames the last handler sent.
Frames == {last.sent[i] : i \in {j \in DOMAIN last.sent : last.sent[j].kind = "LevelData"}}

\* The last handler completed a login of client c: it sent LoginOk to c.
LoginCompleted(l, c) ==
    /\ l.op \in {"LoginUToken", "LoginUTokenAndJoin"}
    /\ l.client = c
    /\ \E i \in DOMAIN l.sent : l.sent[i] = [to |-> c, kind |-> "LoginOk"]

\* C1: if client c1, authenticated as account X, is a participant of session S
\* and client c2 then logs in as X, then once that login has completed (and
\* unless c2 joined S with the same message) S.players no longer contains X and
\* c1's session slot is empty.
C1_DuplicateLoginRemovesPlayer ==
    [][\A c1, c2 \in Clients, X \in Accounts :
          (/\ c1 # c2
           /\ Connected(c1) /\ AccountId(World, c1) = X
           /\ clients[c1].session # None
           /\ X \in DOMAIN objs[clients[c1].session].players
           /\ LoginCompleted(last', c2)
           /\ all_clients'[X] = c2
           /\ clients'[c2].account_data = X /\ ~clients'[c2].deauthorized
           /\ clients'[c2].session # clients[c1].session)
          => /\ clients'[c1].session = None
             /\ clients[c1].session \in DOMAIN objs'
                   => X \notin DOMAIN objs'[clients[c1].session].players]_vars

\* An account id is a key of the players map of at most one game session.
OneSessionPerAccount ==
    \A X \in Accounts : \A o1, o2 \in DOMAIN objs :
        (X \in DOMAIN objs[o1].players /\ X \in DOMAIN objs[o2].players) => o1 = o2

\* A JoinSession of a client that is in a session already removes the player
\* from the old session and inserts it into the new one.
JoinMovesPlayer ==
    \A c \in Clients :
        (/\ last'.op \in {"JoinSession", "LoginUTokenAndJoin"} /\ last'.client = c
         /\ last'.ret = "Ok"
         /\ clients[c].session # None
         /\ clients'[c].session # None
         /\ clients'[c].session # clients[c].session)
        => LET X == clients'[c].account_data
           IN /\ clients[c].session \in DOMAIN objs'
                    => X \notin DOMAIN objs'[clients[c].session].players
              /\ X \in DOMAIN objs'[clients'[c].session].players

\* C2: after any sequence of join, leave, login, duplicate login and disconnect
\* an account id is a key of the players map of at most one session, and a join
\* from inside a session moves the player from the old session to the new one.
C2_AtMostOneSession == []OneSessionPerAccount /\ [][JoinMovesPlayer]_vars

\* all_clients[X] is absent (or dead) or refers to the connected, authorized
\* client that holds account X.
EntryIsHolder ==
    \A X \in Accounts :
        FindClient(World, X) # None
            => /\ clients[FindClient(World, X)].account_data = X
               /\ ~clients[FindClient(World, X)].deauthorized

\* A duplicate login replaces the entry and disconnects the previous holder.
LoginReplacesHolder ==
    \A X \in Accounts :
        (/\ FindClient(World, X) # None
         /\ all_clients'[X] # None
         /\ all_clients'[X] # all_clients[X])
        => /\ clients'[all_clients[X]].deauthorized
           /\ clients'[all_clients[X]].kicked

\* The disconnect of a replaced client leaves the newer client's entry alone.
DisconnectKeepsNewerEntry ==
    \A X \in Accounts :
        (/\ last'.op = "Disconnect"
         /\ all_clients[X] # None
         /\ all_clients[X] # last'.client)
        => all_clients'[X] = all_clients[X]

\* C3: in every reachable state all_clients[X] is absent or refers to the
\* client that currently holds account X (connected and authorized); a
\* duplicate login replaces the entry and disconnects the previous holder, and
\* the disconnect of a replaced client never removes the newer client's entry.
C3_AllClientsHolder ==
    []EntryIsHolder /\ [][LoginReplacesHolder /\ DisconnectKeepsNewerEntry]_vars

\* ---- counters and frames
\* The fairness under which delivery is judged: every player keeps sending
\* PlayerData (clients report their state every tick).
Poll(c) == PlayerData(c, {c}, {<<>>})

SpecSessionFair == SpecSession /\ \A c \in Players : WF_vars(Poll(c))

\* The frame f carries the counter value (item, value).
Carries(f, item, value) ==
    \E k \in DOMAIN f.events : f.events[k] \in {OutCounterChange(item, value), OutSetItem(item, value)}

\* The counter events of the frame f.
CounterEvents(f) == {k \in DOMAIN f.events : f.events[k].type \in {"CounterChange", "SetItem"}}

\* The handler recorded in l was a PlayerData that applied one CounterChange.
AppliedCounterChange(l) ==
    /\ l.op = "PlayerData" /\ l.ret = "Ok"
    /\ Len(l.events) = 1
    /\ l.events[1].type = "CounterChange"

\* The participant p of the session object o in the map ob of objects.
Participant(ob, o, p) == ob[o].players[p]

Size(m) == Cardinality(DOMAIN m)

\* A counter change applied in a session is recorded for every participant
\* present whose unread map has room; for the sender it is recorded or already
\* in the frame it got back.
ChangeRecorded ==
    AppliedCounterChange(last') =>
        LET c == last'.client
            o == clients[c].session
            item == last'.events[1].item_id
            value == objs'[o].values[item]
        IN \A p \in DOMAIN objs[o].players :
              Size(Participant(objs, o, p).unread_counter_values) < MaxUnreadCounters
              => \/ /\ item \in DOMAIN Participant(objs', o, p).unread_counter_values
                    /\ Participant(objs', o, p).unread_counter_values[item].value = value
                 \/ /\ p = clients[c].account_data
                    /\ \E f \in {last'.sent[i] : i \in DOMAIN last'.sent} : Carries(f, item, value)

\* A recorded value stays in the participant's unread map until it is delivered
\* to the participant in a frame, a newer change to the same item takes its
\* place, or the participant leaves, is removed or joins again.
PendingUntilDelivered ==
    \A o \in DOMAIN objs : \A p \in DOMAIN objs[o].players :
        \A item \in DOMAIN Participant(objs, o, p).unread_counter_values :
            LET u == Participant(objs, o, p).unread_counter_values[item]
                actor == IF last'.client = None THEN 0 ELSE clients'[last'.client].account_data
            IN \/ /\ o \in DOMAIN objs' /\ p \in DOMAIN objs'[o].players
                  /\ item \in DOMAIN Participant(objs', o, p).unread_counter_values
                  /\ Participant(objs', o, p).unread_counter_values[item] = u
               \/ /\ last'.op = "PlayerData" /\ actor = p
                  /\ \E f \in {last'.sent[i] : i \in DOMAIN last'.sent} :
                        f.to = last'.client /\ Carries(f, item, u.value)
               \/ /\ AppliedCounterChange(last') /\ last'.events[1].item_id = item
                  /\ o \in DOMAIN objs' /\ p \in DOMAIN objs'[o].players
                  /\ \/ /\ item \in DOMAIN Participant(objs', o, p).unread_counter_values
                        /\ Participant(objs', o, p).unread_counter_values[item].prio > u.prio
                     \/ /\ actor = p
                        /\ \E f \in {last'.sent[i] : i \in DOMAIN last'.sent} :
                              Carries(f, item, objs'[o].values[item])
               \/ /\ last'.op # "PlayerData" /\ actor = p

\* C4 (as amended): a CounterChange applied in session S is recorded in the
\* unread counter map of every participant present (unless that map is at its
\* bound), and stays there until it is delivered to the participant in a frame,
\* is replaced by a newer change to the same item, or the participant leaves.
C4_RecordedUntilDelivered == [][ChangeRecorded /\ PendingUntilDelivered]_vars

\* A counter change has been applied in a session with another participant,
\* for whom the new value is recorded.
C4_Witness ==
    /\ AppliedCounterChange(last)
    /\ \E p \in DOMAIN objs[clients[last.client].session].players :
          LET item == last.events[1].item_id
              unread == Participant(objs, clients[last.client].session, p).unread_counter_values
          IN /\ p # clients[last.client].account_data
             /\ item \in DOMAIN unread
             /\ unread[item].value = objs[clients[last.client].session].values[item]

\* The value (item, value) is in the unread counter map of participant p of session 1.
Pending(p, item, value) ==
    /\ sessions[1] # None /\ p \in DOMAIN objs[sessions[1]].players
    /\ item \in DOMAIN Participant(objs, sessions[1], p).unread_counter_values
    /\ Participant(objs, sessions[1], p).unread_counter_values[item].value = value

\* The last frame went to participant p and carried (item, value).
Delivered(p, item, value) ==
    \E f \in Frames : clients[f.to].account_data = p /\ Carries(f, item, value)

\* The participant p is not in session 1 (any more).
Absent(p) == sessions[1] = None \/ p \notin DOMAIN objs[sessions[1]].players

\* C4 (as stated): an (item, value) recorded for a participant is received by
\* that participant in one of its later frames, here for the value 1 of item 1
\* and the players that only report their state, and only as long as the
\* participant stays in the session.
C4_EventuallyDelivered ==
    \A p \in Players \ {1} : Pending(p, 1, 1) ~> (Delivered(p, 1, 1) \/ Absent(p))

\* C5 (as amended): the sender's own counter change is fanned out to the sender
\* too: the frame it gets back for the PlayerData that carried
\* CounterChange(item, ...) carries counter events, and among them the item's
\* new value unless the sender's unread map was at its bound or other pending
\* changes filled the frame (the value then stays pending for the sender).
C5_SenderGetsOwnChange ==
    [][AppliedCounterChange(last') =>
          LET c == last'.client
              o == clients[c].session
              X == clients[c].account_data
              item == last'.events[1].item_id
              value == objs'[o].values[item]
              f == last'.sent[1]
              before == Participant(objs, o, X).unread_counter_values
              after == Participant(objs', o, X).unread_counter_values
          IN X \in DOMAIN objs[o].players =>
                /\ f.to = c /\ CounterEvents(f) # {}
                /\ Size(before) < MaxUnreadCounters
                      => \/ Carries(f, item, value)
                         \/ item \in DOMAIN after /\ after[item].value = value
                /\ (Size(before) < MaxUnreadCounters
                    /\ Cardinality(DOMAIN before \ {item}) < MAX_EVENT_COUNT)
                      => Carries(f, item, value)]_vars

\* The sender of CounterChange(item, Add(v)) got the item's new value back in
\* the frame that answers its message.
C5_Witness ==
    /\ AppliedCounterChange(last)
    /\ last.events[1].ctype.kind = "Add"
    /\ \E f \in Frames :
          /\ f.to = last.client
          /\ Carries(f, last.events[1].item_id,
                     objs[clients[last.client].session].values[last.events[1].item_id])

\* C5 (as stated): when client A sends PlayerData carrying
\* CounterChange(item, Add(v)), the frame A receives next contains no counter
\* event.
C5_NoEchoToSender ==
    (AppliedCounterChange(last) /\ last.events[1].ctype.kind = "Add")
        => \A f \in Frames : f.to = last.client => CounterEvents(f) = {}

\* C6: no entry of the players list of a frame has the account id of the
\* client the frame is produced for.
C6_SenderNotInPlayers ==
    \A f \in Frames : \A k \in DOMAIN f.players : f.players[k] # clients[f.to].account_data

\* A frame for a sender whose session has another participant, who is in the list.
C6_Witness ==
    \E f \in Frames :
        /\ clients[f.to].account_data \in DOMAIN objs[clients[f.to].session].players
        /\ \E k \in DOMAIN f.players : f.players[k] \in Accounts

\* C7: a frame is sent reliably if and only if the out-event list that
\* update_player collected for it is non-empty.
C7_ReliableIffEvents == \A f \in Frames : f.reliable <=> (f.events # <<>>)

\* A frame with out-events, sent reliably.
C7_Witness == \E f \in Frames : f.events # <<>> /\ f.reliable

\* The last handler was a JoinSession that added the client to a session.
Joined == last.op = "JoinSession" /\ last.ret = "Ok" /\ clients[last.client].session # None

JoinedSession == objs[clients[last.client].session]

JoinedPlayer == JoinedSession.players[clients[last.client].account_data]

\* C8 (as amended): right after add_player(id) the unread counter map of the
\* new participant holds (item, value) pairs of session.counters only: all of
\* them when counters has at most as many entries as the map's bound, and as
\* many as the bound otherwise.
C8_SeededUpToBound ==
    Joined =>
        /\ \A item \in DOMAIN JoinedPlayer.unread_counter_values :
              /\ item \in DOMAIN JoinedSession.counters
              /\ JoinedPlayer.unread_counter_values[item].value = JoinedSession.counters[item]
        /\ Size(JoinedPlayer.unread_counter_values) =
              IF Size(JoinedSession.counters) < MaxUnreadCounters
              THEN Size(JoinedSession.counters) ELSE MaxUnreadCounters

\* A player has joined a session that has counters.
C8_Witness == Joined /\ Size(JoinedSession.counters) > MaxUnreadCounters

\* C8 (as stated): right after add_player(id) the unread counter map of the new
\* participant contains (item, value) for every (item, value) in session.counters.
C8_SeededWithAllCounters ==
    Joined =>
        \A item \in DOMAIN JoinedSession.counters :
            /\ item \in DOMAIN JoinedPlayer.unread_counter_values
            /\ JoinedPlayer.unread_counter_values[item].value = JoinedSession.counters[item]

\* The last handler applied a counter change whose result is 0.
AppliedZero ==
    /\ AppliedCounterChange(last)
    /\ objs[clients[last.client].session].values[last.events[1].item_id] = 0

\* The participant p of the sender's session has the zeroed item with value 0
\* in its unread map, or (if p is the sender) has got it in the frame.
ZeroRecorded(p) ==
    LET c == last.client
        item == last.events[1].item_id
        unread == Participant(objs, clients[c].session, p).unread_counter_values
    IN \/ item \in DOMAIN unread /\ unread[item].value = 0
       \/ /\ p = clients[c].account_data
          /\ \E f \in Frames : Carries(f, item, 0)

\* The unread map of participant p was at its bound when the change came: it
\* is at the bound now, or (the sender) it is below it by what the frame took.
WasFull(p) ==
    LET c == last.client
        unread == Participant(objs, clients[c].session, p).unread_counter_values
    IN \/ Size(unread) = MaxUnreadCounters
       \/ /\ p = clients[c].account_data
          /\ \E f \in Frames : Size(unread) + Cardinality(CounterEvents(f)) = MaxUnreadCounters

\* C9 (as amended): after notify_counter_change(item, 0) the item is absent
\* from session.counters and present with value 0 in the unread counter map of
\* every participant whose map was not at its bound; a player who joins is
\* never seeded with a zero value.
C9_ZeroRemovesCounter ==
    /\ AppliedZero =>
          /\ last.events[1].item_id \notin DOMAIN objs[clients[last.client].session].counters
          /\ \A p \in DOMAIN objs[clients[last.client].session].players :
                ZeroRecorded(p) \/ WasFull(p)
    /\ Joined => \A item \in DOMAIN JoinedPlayer.unread_counter_values :
                    JoinedPlayer.unread_counter_values[item].value # 0

\* A counter was set to 0 in a session with another participant, who has it
\* recorded with value 0.
C9_Witness ==
    /\ AppliedZero
    /\ \E p \in DOMAIN objs[clients[last.client].session].players :
          /\ p # clients[last.client].account_data
          /\ last.events[1].item_id
                \in DOMAIN Participant(objs, clients[last.client].session, p).unread_counter_values
          /\ ZeroRecorded(p)

\* C9 (as stated): after notify_counter_change(item, 0) the item is absent from
\* session.counters and present with value 0 in the unread counter map of every
\* participant of the session.
C9_ZeroRecordedForAll ==
    AppliedZero =>
        /\ last.events[1].item_id \notin DOMAIN objs[clients[last.client].session].counters
        /\ \A p \in DOMAIN objs[clients[last.client].session].players : ZeroRecorded(p)

\* Both queues of every participant of every session are within their bounds.
QueuesBounded ==
    \A o \in DOMAIN objs : \A p \in DOMAIN objs[o].players :
        /\ Len(objs[o].players[p].unread_events) <= MaxUnreadEvents
        /\ Size(objs[o].players[p].unread_counter_values) <= MaxUnreadCounters

\* A PlayerData of another client that carries an event leaves a queue that is
\* at its bound as it was.
OverflowDropped ==
    (last'.op = "PlayerData" /\ last'.ret = "Ok" /\ last'.events # <<>>) =>
        \A p \in DOMAIN objs[clients[last'.client].session].players :
            p # clients[last'.client].account_data =>
                LET before == Participant(objs, clients[last'.client].session, p)
                    after == Participant(objs', clients[last'.client].session, p)
                IN /\ Len(before.unread_events) = MaxUnreadEvents
                        => after.unread_events = before.unread_events
                   /\ Size(before.unread_counter_values) = MaxUnreadCounters
                        => after.unread_counter_values = before.unread_counter_values

\* C10: in every reachable state every participant's unread_events holds at
\* most MaxUnreadEvents entries (512 in the source) and its
\* unread_counter_values at most MaxUnreadCounters (1024 in the source); a push
\* that would exceed the bound is dropped and leaves the queue unchanged.
C10_QueuesBounded == []QueuesBounded /\ [][OverflowDropped]_vars

\* Both queues of a participant are at their bounds and the counter change
\* just applied was dropped for it.
C10_Witness ==
    /\ AppliedCounterChange(last)
    /\ \E p \in DOMAIN objs[clients[last.client].session].players :
          /\ p # clients[last.client].account_data
          /\ Len(Participant(objs, clients[last.client].session, p).unread_events) = MaxUnreadEvents
          /\ Size(Participant(objs, clients[last.client].session, p).unread_counter_values)
                = MaxUnreadCounters
          /\ last.events[1].item_id
                \notin DOMAIN Participant(objs, clients[last.client].session, p).unread_counter_values

\* ---- frame limit
\* Every frame carries at most MAX_EVENT_COUNT out-events.
FrameWithinLimit == \A f \in Frames : Len(f.events) <= MAX_EVENT_COUNT

\* The out-events of the frame f that are not counter values, in order.
QueueEvents(f) == SelectSeq(f.events, LAMBDA e : e.type \notin {"CounterChange", "SetItem"})

\* What a PlayerData without inbound events leaves behind: every pending
\* counter value is in the frame or still in the map as it was, the unread
\* events are the ones in the frame followed by the ones still queued, and
\* something is left behind only when the frame is full.
RestStaysQueued ==
    (last'.op = "PlayerData" /\ last'.sent # <<>> /\ last'.events = <<>>) =>
        LET c == last'.client
            o == clients[c].session
            X == clients[c].account_data
            f == last'.sent[1]
        IN X \in DOMAIN objs[o].players =>
              LET before == Participant(objs, o, X)
                  after == Participant(objs', o, X)
              IN /\ \A item \in DOMAIN before.unread_counter_values :
                        \/ Carries(f, item, before.unread_counter_values[item].value)
                        \/ /\ item \in DOMAIN after.unread_counter_values
                           /\ after.unread_counter_values[item] = before.unread_counter_values[item]
                 /\ before.unread_events = QueueEvents(f) \o after.unread_events
                 /\ Len(f.events) + Size(after.unread_counter_values) + Len(after.unread_events)
                        = Size(before.unread_counter_values) + Len(before.unread_events)
                 /\ (Size(after.unread_counter_values) + Len(after.unread_events) > 0)
                        => Len(f.events) = MAX_EVENT_COUNT

\* C11: every outbound frame carries at most MAX_EVENT_COUNT out-events (64 in
\* the source), however many counter changes and events are pending for the
\* participant; the entries that do not fit stay queued for later frames.
C11_FrameLimit == []FrameWithinLimit /\ [][RestStaysQueued]_vars

\* A full frame was sent to a participant who still has a counter value and
\* an event queued.
C11_Witness ==
    /\ last.op = "PlayerData" /\ last.events = <<>>
    /\ \E f \in Frames :
          /\ Len(f.events) = MAX_EVENT_COUNT
          /\ clients[f.to].session # None
          /\ clients[f.to].account_data \in DOMAIN objs[clients[f.to].session].players
          /\ LET p == Participant(objs, clients[f.to].session, clients[f.to].account_data)
             IN Size(p.unread_counter_values) + Len(p.unread_events) > 0

\* ---- rooms
\* The last handler answered client c with JoinSessionFailed(reason) and nothing else.
JoinFailed(l, c, reason) ==
    l.sent = <<[to |-> c, kind |-> "JoinSessionFailed", reason |-> reason]>>

\* The sessions, their player sets and the session slots are as they were.
SessionsUnchanged == clients' = clients /\ objs' = objs /\ sessions' = sessions

\* The join of client c succeeded: nothing was sent, and c's slot holds a
\* session with the requested id that has c's account among its players.
JoinSucceeded(c, session_id) ==
    /\ last'.sent = <<>> /\ last'.ret = "Ok"
    /\ clients'[c].session # None
    /\ objs'[clients'[c].session].id = session_id
    /\ clients'[c].account_data \in DOMAIN objs'[clients'[c].session].players

\* C12: a JoinSession of an authorized client for a session id with a non-zero
\* room_id is rejected with InvalidRoom when the room is not in all_rooms, with
\* InvalidPasscode when the room's passcode is non-zero and differs from the
\* supplied one, and succeeds otherwise; a rejected join leaves the client's
\* session slot and every session's player set unchanged.
C12_RoomGate ==
    [][\A c \in Clients :
          (/\ last'.op = "JoinSession" /\ last'.client = c
           /\ Authorized(World, c)
           /\ RoomId(last'.events[1].session_id) # 0)
          => LET session_id == last'.events[1].session_id
                 passcode == last'.events[1].passcode
                 known == RoomId(session_id) \in DOMAIN all_rooms
                 room == all_rooms[RoomId(session_id)]
             IN /\ ~known
                      => JoinFailed(last', c, "InvalidRoom") /\ SessionsUnchanged
                /\ (known /\ room.passcode # 0 /\ room.passcode # passcode)
                      => JoinFailed(last', c, "InvalidPasscode") /\ SessionsUnchanged
                /\ (known /\ (room.passcode = 0 \/ room.passcode = passcode))
                      => JoinSucceeded(c, session_id)]_vars

\* A client that is in a session was refused a room's session for its passcode.
C12_Witness ==
    /\ last.op = "JoinSession"
    /\ JoinFailed(last, last.client, "InvalidPasscode")
    /\ clients[last.client].session # None

\* ---- authorization
\* Nothing of the server's state has changed and nothing was sent.
NoEffect ==
    /\ last'.sent = <<>>
    /\ clients' = clients /\ all_clients' = all_clients
    /\ objs' = objs /\ sessions' = sessions

\* C13: a PlayerData message from an unauthorized client is refused with
\* Unauthorized, one whose data.account_id differs from the client's own
\* account id with SpoofedAccountId; either way none of its inbound events is
\* applied, no player state, counter or queue of any session changes, no frame
\* is sent, and the client is not disconnected.
C13_RejectedPlayerData ==
    [][\A c \in Clients :
          (last'.op = "PlayerData" /\ last'.client = c) =>
              /\ ~Authorized(World, c) => last'.ret = "Unauthorized" /\ NoEffect
              /\ (Authorized(World, c) /\ last'.data # AccountId(World, c))
                    => last'.ret = "SpoofedAccountId" /\ NoEffect
              /\ (Authorized(World, c) /\ last'.data = AccountId(World, c))
                    => last'.ret = "Ok"]_vars

\* A participant of a session sent PlayerData that carried an event under the
\* account id of another participant, and was refused.
C13_Witness ==
    /\ last.op = "PlayerData" /\ last.ret = "SpoofedAccountId"
    /\ last.events # <<>>
    /\ clients[last.client].session # None
    /\ last.data \in DOMAIN objs[clients[last.client].session].players
    /\ ~clients[last.client].kicked

\* A deauthorized client has an empty session slot.
DeauthorizedHasNoSession ==
    \A c \in Clients : clients[c].deauthorized => clients[c].session = None

\* A deauthorized client stays deauthorized and unauthorized whatever message
\* it sends; its JoinSession, LeaveSession and PlayerData fail with
\* Unauthorized and a login message leaves its session slot empty.
StaysDeauthorized ==
    \A c \in Clients :
        clients[c].deauthorized =>
            /\ clients'[c].deauthorized
            /\ ~(clients'[c].account_data # 0 /\ ~clients'[c].deauthorized)
            /\ (last'.client = c /\ last'.op \in {"JoinSession", "LeaveSession", "PlayerData"})
                  => last'.ret = "Unauthorized"
            /\ (last'.client = c /\ last'.op = "LoginUTokenAndJoin")
                  => last'.ret = "Unauthorized" /\ clients'[c].session = None

\* C14: once a client has been deauthorized it never again counts as
\* authorized: every later JoinSession, LeaveSession and PlayerData from it
\* fails with Unauthorized, a later login message from it does not make it
\* authorized, and deauthorization leaves it with an empty session slot.
C14_DeauthorizedForGood == []DeauthorizedHasNoSession /\ [][StaysDeauthorized]_vars

\* A deauthorized client sent a login message with a valid token, was answered
\* with LoginOk, and is still deauthorized.
C14_Witness ==
    /\ last.op \in {"LoginUToken", "LoginUTokenAndJoin"}
    /\ LoginCompleted(last, last.client)
    /\ clients[last.client].deauthorized
    /\ clients[last.client].status = "connected"

\* ---- two-player events
\* The handler recorded in l was a PlayerData that sent a frame.
SentFrame(l) == l.op = "PlayerData" /\ l.ret = "Ok" /\ l.sent # <<>>

\* The handler recorded in l applied a two-player event.
AppliedLinkEvent(l) ==
    /\ SentFrame(l)
    /\ Len(l.events) = 1
    /\ l.events[1].type \in {"TwoPlayerLinkRequest", "TwoPlayerUnlink"}

\* The out-event that the two-player event ev of sender S becomes.
LinkOutEvent(ev, S) ==
    IF ev.type = "TwoPlayerLinkRequest" THEN OutLinkRequest(S, ~ev.player1) ELSE OutUnlink(S)

\* The unread events of participant q of session o once the event of the
\* handler recorded in l (sent by S) has been pushed, with or without the bound
\* of the queue.
QueueAfterPush(l, o, S, q, bounded) ==
    LET before == Participant(objs, o, q).unread_events
    IN IF AppliedLinkEvent(l) /\ l.events[1].player_id = q
          /\ (~bounded \/ Len(before) < MaxUnreadEvents)
       THEN Append(before, LinkOutEvent(l.events[1], S))
       ELSE before

Min(a, b) == IF a < b THEN a ELSE b

\* A two-player event goes to the queue of its target and of nobody else, and
\* every frame takes the events from the head of its receiver's queue, as many
\* as the frame has room for.
LinkEventQueued ==
    SentFrame(last') =>
        LET c == last'.client
            o == clients[c].session
            S == clients[c].account_data
            f == last'.sent[1]
        IN \A q \in DOMAIN objs[o].players :
              LET expected == QueueAfterPush(last', o, S, q, TRUE)
                  after == Participant(objs', o, q).unread_events
              IN IF q = S
                 THEN /\ QueueEvents(f) \o after = expected
                      /\ Len(QueueEvents(f))
                            = Min(Len(expected), MAX_EVENT_COUNT - Cardinality(CounterEvents(f)))
                 ELSE after = expected

\* C15 (as amended): a TwoPlayerLinkRequest{B, p} or TwoPlayerUnlink{B} of
\* sender S is appended to the unread events of B, if B is a participant of
\* S's session and B's queue is below its bound, as
\* TwoPlayerLinkRequest{S, not p} or TwoPlayerUnlink{S}; B's frames carry the
\* queue's events in order, as many per frame as the frame has room for; no
\* other participant's queue or frame gets the event.
C15_LinkEventToTarget == [][LinkEventQueued]_vars

\* Player S sent a link request for another participant B, whose queue now
\* ends with the request from S with player1 inverted.
C15_Witness ==
    /\ AppliedLinkEvent(last)
    /\ last.events[1].type = "TwoPlayerLinkRequest"
    /\ LET o == clients[last.client].session
           S == clients[last.client].account_data
           B == last.events[1].player_id
       IN /\ B # S /\ B \in DOMAIN objs[o].players
          /\ Len(Participant(objs, o, B).unread_events) > 0
          /\ Participant(objs, o, B).unread_events[Len(Participant(objs, o, B).unread_events)]
                = OutLinkRequest(S, ~last.events[1].player1)

\* C15 (as stated): the event S sends for participant B is carried by B's next
\* frame: it is put into B's queue, and a frame carries all the events that
\* are queued for its receiver.
C15_NextFrameCarries ==
    [][SentFrame(last') =>
          LET c == last'.client
              o == clients[c].session
              S == clients[c].account_data
              f == last'.sent[1]
          IN \A q \in DOMAIN objs[o].players :
                LET expected == QueueAfterPush(last', o, S, q, FALSE)
                    after == Participant(objs', o, q).unread_events
                IN IF q = S THEN QueueEvents(f) = expected /\ after = <<>>
                   ELSE after = expected]_vars

\* ---- players map
\* C16: in every reachable state, for every session and every key id of its
\* players map, players[id].state.account_id = id.
C16_KeyIsAccountId ==
    \A o \in DOMAIN objs : \A id \in DOMAIN objs[o].players :
        objs[o].players[id].state.account_id = id

\* A session with two players, one added by add_player just now or updated by
\* update_player just now.
C16_Witness ==
    /\ last.op \in {"JoinSession", "PlayerData"} /\ last.ret = "Ok"
    /\ clients[last.client].session # None
    /\ clients[last.client].account_data \in DOMAIN objs[clients[last.client].session].players
    /\ Size(objs[clients[last.client].session].players) > 1

\* ---- deletion of empty sessions
\* C17: delete_session_if_empty(session_id) removes the session from the
\* registry if and only if its players map is empty at the moment of the
\* check, and then also from the heartbeat set; a session that has a player is
\* never removed, also when the call runs between the steps of another
\* handler that removes the last player.
C17_DeleteIffEmpty ==
    [][last'.op = "LeaveDelete" =>
          LET sid == last'.events[1].session_id
          IN /\ (sessions[sid] # None /\ DOMAIN objs[sessions[sid]].players = {})
                   => /\ sessions'[sid] = None
                      /\ sid \notin DOMAIN heartbeats'
             /\ (sessions[sid] # None /\ DOMAIN objs[sessions[sid]].players # {})
                   => /\ sessions'[sid] = sessions[sid]
                      /\ heartbeats' = heartbeats
             /\ sessions[sid] = None => sessions' = sessions /\ heartbeats' = heartbeats
             /\ \A other \in AllSessionIds \ {sid} : sessions'[other] = sessions[other]]_vars

\* Two handlers were leaving the same session at once; the one that checked
\* last found it without players and removed it, also from the heartbeat set
\* it was in, while the other has not reached its check yet.
C17_Witness ==
    /\ last.op = "LeaveDelete"
    /\ sessions[last.events[1].session_id] = None
    /\ \E d \in Clients :
          /\ d # last.client
          /\ clients[d].pc = "delete"
          /\ objs[clients[d].leaving].id = last.events[1].session_id
          /\ objs[clients[d].leaving].players = EmptyMap

\* ---- the central server is out of reach
\* The client is authorized, in the current state.
IsAuthorized(c) == clients[c].account_data # 0 /\ ~clients[c].deauthorized

\* A login message of a client that is not authorized, while there is no
\* token issuer, is answered with LoginFailed(CentralServerUnreachable) and
\* nothing else, and changes nothing.
LoginRefusedWhileDown ==
    \A c \in Clients :
        (/\ last'.client = c
         /\ last'.op \in {"LoginUToken", "LoginUTokenAndJoin"}
         /\ ~token_issuer
         /\ ~IsAuthorized(c))
        => /\ last'.sent = <<[to |-> c, kind |-> "LoginFailed",
                               reason |-> "CentralServerUnreachable"]>>
           /\ clients' = clients /\ all_clients' = all_clients
           /\ objs' = objs /\ sessions' = sessions

\* on_disconnected takes the token issuer away and touches no client and no
\* session; only LoginOk brings the issuer back.
IssuerGoneUntilLoginOk ==
    /\ last'.op = "BridgeDisconnected"
          => /\ ~token_issuer'
             /\ clients' = clients /\ all_clients' = all_clients
             /\ objs' = objs /\ sessions' = sessions
    /\ (~token_issuer /\ token_issuer') => last'.op = "BridgeLoginOk"

\* While there is no token issuer, an authorized client is changed by its own
\* messages only, and its login messages leave it authorized.
AuthorizedKeptWhileDown ==
    \A c \in Clients :
        (~token_issuer /\ IsAuthorized(c))
        => /\ last'.client # c => clients'[c] = clients[c]
           /\ (last'.client = c /\ last'.op \in {"LoginUToken", "LoginUTokenAndJoin"})
                 => /\ clients'[c].account_data = clients[c].account_data
                    /\ ~clients'[c].deauthorized
                    /\ \A i \in DOMAIN last'.sent : last'.sent[i].kind # "LoginFailed"
           /\ (last'.client = c /\ last'.op = "LoginUToken") => clients'[c] = clients[c]

\* C18: from the bridge's on_disconnected until a later LoginOk, every login
\* attempt of a client that is not authorized is answered with
\* LoginFailed(CentralServerUnreachable) and leaves it unauthorized, while the
\* clients that are authorized keep their authorization and their session.
C18_CentralServerUnreachable ==
    [][LoginRefusedWhileDown /\ IssuerGoneUntilLoginOk /\ AuthorizedKeptWhileDown]_vars

\* After a disconnect of the bridge a login was refused with
\* CentralServerUnreachable while another client, logged in before the
\* disconnect, is still authorized and in its session.
C18_Witness ==
    /\ last.op \in {"LoginUToken", "LoginUTokenAndJoin"}
    /\ ~token_issuer
    /\ last.sent = <<[to |-> last.client, kind |-> "LoginFailed",
                      reason |-> "CentralServerUnreachable"]>>
    /\ ~IsAuthorized(last.client)
    /\ \E d \in Clients \ {last.client} : IsAuthorized(d) /\ clients[d].session # None

\* ---- reconnecting to the central server
\* The connection that is lost in this step was a short one: it lasted less
\* than 2 s and the bridge was authenticated, or less than 5 s and it was not.
ShortConnection ==
    \/ bridge.authenticated /\ last'.events[1].elapsed < DeadlineAuthenticated
    \/ ~bridge.authenticated /\ last'.events[1].elapsed < DeadlineUnauthenticated

\* The step is a connection error: on_connection_error is called, or a
\* connect() of the bridge returns an error.
ConnectionErrorStep ==
    \/ last'.op = "BridgeConnectionError"
    \/ last'.op = "BridgeWake" /\ ~last'.events[1].connect_ok
    \/ last'.op = "BridgeDisconnected" /\ ~ShortConnection /\ ~last'.events[1].connect_ok

\* The seconds to wait after the k-th consecutive connection error.
Backoff(k) == IF k >= 6 THEN 64 ELSE <<2, 4, 8, 16, 32>>[k]

\* C19: the attempt counter is the number of connection errors since the last
\* on_connected (an error adds one, on_connected sets it to zero, nothing else
\* changes it), and the k-th of these errors sleeps 2^min(k,6) seconds before
\* the next attempt: 2, 4, 8, 16, 32 and then 64 for the sixth and later.
C19_ExponentialBackoff ==
    [][/\ ConnectionErrorStep
            => /\ bridge'.reconnect_attempt = bridge.reconnect_attempt + 1
               /\ bridge'.pos = "sleeping"
               /\ bridge'.wait = Backoff(bridge'.reconnect_attempt)
       /\ last'.op = "BridgeConnected" => bridge'.reconnect_attempt = 0
       /\ (~ConnectionErrorStep /\ last'.op # "BridgeConnected")
            => bridge'.reconnect_attempt = bridge.reconnect_attempt]_vars

\* The seventh connection error in a row sleeps 64 s.
C19_Witness ==
    /\ last.op \in {"BridgeConnectionError", "BridgeWake"}
    /\ bridge.pos = "sleeping"
    /\ bridge.reconnect_attempt = MaxBackoffExp + 1
    /\ bridge.wait = 64

\* What on_disconnected does about the delay: 10 s of sleep after a short
\* connection, no such sleep otherwise.
DelayAfterShortConnection ==
    last'.op = "BridgeDisconnected" =>
        /\ ShortConnection
              => bridge'.pos = "sleeping" /\ bridge'.wait = QuickDisconnectDelay
        /\ ~ShortConnection
              => ~(bridge'.pos = "sleeping" /\ bridge'.wait = QuickDisconnectDelay)

RoomCreatedInserted ==
    LET n == last'.events[1]
    IN /\ all_rooms' = MapPut(all_rooms, n.room_id, [passcode |-> n.passcode, owner |-> n.owner])
       /\ last'.sent = <<[to |-> None, kind |-> "RoomCreatedAck", room_id |-> n.room_id]>>

\* NotifyRoomDeleted takes the room out of the map.
RoomDeletedRemoved == all_rooms' = MapDel(all_rooms, last'.events[1].room_id)

\* Only the two notifications change the map of rooms.
RoomsOnlyByNotification ==
    last'.op \notin {"NotifyRoomCreated", "NotifyRoomDeleted"} => all_rooms' = all_rooms

\* C21 as stated: every NotifyRoomCreated inserts the room and is
\* acknowledged, every NotifyRoomDeleted removes the room, and nothing else
\* changes the rooms.
C21_EveryNotificationApplied ==
    [][/\ last'.op = "NotifyRoomCreated" => RoomCreatedInserted
       /\ last'.op = "NotifyRoomDeleted" => RoomDeletedRemoved
       /\ RoomsOnlyByNotification]_vars

\* C21: while the bridge is authenticated, NotifyRoomCreated inserts the room
\* with its passcode and owner and RoomCreatedAck is sent back, and
\* NotifyRoomDeleted removes the room; while it is not, both notifications
\* are ignored and nothing is sent; no other message changes the rooms.
C21_RoomNotifications ==
    [][/\ (last'.op = "NotifyRoomCreated" /\ bridge.authenticated) => RoomCreatedInserted
       /\ (last'.op = "NotifyRoomDeleted" /\ bridge.authenticated) => RoomDeletedRemoved
       /\ (last'.op \in {"NotifyRoomCreated", "NotifyRoomDeleted"} /\ ~bridge.authenticated)
             => all_rooms' = all_rooms /\ last'.sent = <<>>
       /\ RoomsOnlyByNotification]_vars

\* A room with a passcode was created by a notification and acknowledged.
C21_Witness ==
    /\ last.op = "NotifyRoomCreated"
    /\ bridge.authenticated
    /\ last.events[1].passcode # 0
    /\ last.events[1].room_id \in DOMAIN all_rooms
    /\ all_rooms[last.events[1].room_id] =
           [passcode |-> last.events[1].passcode, owner |-> last.events[1].owner]
    /\ last.sent = <<[to |-> None, kind |-> "RoomCreatedAck", room_id |-> last.events[1].room_id]>>

\* ---- event codec
\* What the claim has InEvent::decode reject: the type ids of the server-only
\* events, the unknown ids from 0xF000 on, and a counter change whose raw
\* type byte is above 3.
MustBeRejected(item) ==
    \/ item.ty \in ServerOnlyTypes
    \/ /\ item.ty >= EVENT_GLOBED_BASE
       /\ item.ty \notin {EVENT_COUNTER_CHANGE, EVENT_SCR_REQUEST_SCRIPT_LOGS,
                           EVENT_2P_LINK_REQUEST, EVENT_2P_UNLINK,
                           EVENT_SWITCHEROO_FULL_STATE, EVENT_SWITCHEROO_SWITCH}
          \cup ServerOnlyTypes
    \/ item.ty = EVENT_COUNTER_CHANGE /\ item.payload[8] > 3

\* The events the client means by the wire events that must not be rejected
RECURSIVE MeantEvents(_)
MeantEvents(items) ==
    IF items = <<>> THEN <<>>
    ELSE (IF MustBeRejected(Head(items)) THEN <<>> ELSE <<Head(items).event>>)
         \o MeantEvents(Tail(items))

\* The step is what handle_player_data does with the given events.
HandledAs(c, account_id, events) ==
    \E ch \in PlayerDataChoices(World, c, [account_id |-> account_id], events) :
        LET w == HandlePlayerData(World, c, [account_id |-> account_id], events,
                                  ch.picked, ch.order)
        IN w.valid /\ objs' = w.objs /\ last'.sent = w.sent /\ last'.ret = w.ret

\* C22: InEvent::decode rejects the server-only event types, the unknown type
\* ids from 0xF000 on and the counter changes with a raw type byte above 3: a
\* PlayerData message does what it would do without these events, and one
\* that holds nothing else changes no counter of the session and no unread
\* queue of another participant.
C22_RejectedEvents ==
    [][last'.op = "PlayerDataWire" =>
          /\ last'.ret # "DecodeError"
          /\ HandledAs(last'.client, last'.data, MeantEvents(last'.events))
          /\ (\A i \in DOMAIN last'.events : MustBeRejected(last'.events[i]))
                => \A o \in DOMAIN objs :
                      /\ objs'[o].values = objs[o].values
                      /\ objs'[o].counters = objs[o].counters
                      /\ \A p \in DOMAIN objs[o].players :
                            p # last'.data => objs'[o].players[p] = objs[o].players[p]]_vars

\* A message with a server-only event and a counter change of raw type 4 was
\* answered with a frame while another participant is in the session, whose
\* queues are empty and the counter is still unset.
C22_Witness ==
    /\ last.op = "PlayerDataWire"
    /\ Len(last.events) = 2
    /\ last.events[1].ty = EVENT_PLAYER_JOIN
    /\ last.events[2].ty = EVENT_COUNTER_CHANGE /\ last.events[2].payload[8] = 4
    /\ Len(last.sent) = 1
    /\ \E o \in DOMAIN objs :
          /\ last.data \in DOMAIN objs[o].players
          /\ objs[o].values = EmptyMap
          /\ \E p \in DOMAIN objs[o].players :
                /\ p # last.data
                /\ objs[o].players[p].unread_counter_values = EmptyMap
                /\ objs[o].players[p].unread_events = <<>>

\* C23: for every event that both halves of the codec have and every payload
\* in range (for a counter change: item id below 2^24, raw type 0 to 3),
\* decoding the bytes that encoding produces yields the event again, and
\* nothing else.
C23_RoundTrip ==
    [][last'.op = "RoundTrip" => last'.ret = "Ok" /\ last'.sent = last'.events]_vars

\* ---- culling
\* The squared distance of a position to the centre of the camera
Dist2(position, camera_range) ==
    (position.x - camera_range.center.x) * (position.x - camera_range.center.x)
    + (position.y - camera_range.center.y) * (position.y - camera_range.center.y)

\* The object data of a player state; a player that has not reported yet has
\* a single object at the origin.
ObjectData(state) ==
    IF "data_kind" \in DOMAIN state THEN state.data_kind
    ELSE [kind |-> "Single", player |-> [x |-> 0, y |-> 0]]

\* One of the player objects of the state is strictly inside the disk.
StrictlyInside(state, camera_range) ==
    LET k == ObjectData(state)
        r == camera_range.radius
        positions == IF k.kind = "Single" THEN {k.player} ELSE {k.player1, k.player2}
    IN \E pos \in positions : r > 0 /\ Dist2(pos, camera_range) < r * r

\* C24: every neighbour written into a frame carries its full Single or Dual
\* object data if and only if one of its player objects is strictly inside
\* the viewer's camera disk; otherwise, also at a distance equal to the
\* radius, the entry is Culled.
C24_Culling ==
    [][last'.op = "PlayerDataCam" =>
          \A i \in DOMAIN last'.sent :
              LET f == last'.sent[i]
                  s == objs'[clients'[last'.client].session]
              IN \A j \in DOMAIN f.players :
                    f.players[j] # 0 =>
                       LET state == s.players[f.players[j]].state
                           inside == StrictlyInside(state, last'.events[1].camera_range)
                       IN /\ inside => f.objects[j] = ObjectData(state)
                          /\ ~inside => f.objects[j] = [kind |-> "Culled"]]_vars

\* A frame for a camera of radius 5 around the origin holds a neighbour whose
\* only object is at (3,4), on the border: it is culled.
C24_Witness ==
    /\ last.op = "PlayerDataCam"
    /\ last.events[1].camera_range = [center |-> [x |-> 0, y |-> 0], radius |-> 5]
    /\ Len(last.sent) = 1
    /\ \E j \in DOMAIN last.sent[1].players :
          LET n == last.sent[1].players[j]
              s == objs[clients[last.client].session]
          IN /\ n # 0
             /\ ObjectData(s.players[n].state) = [kind |-> "Single", player |-> [x |-> 3, y |-> 4]]
             /\ last.sent[1].objects[j] = [kind |-> "Culled"]

\* C26: of the inbound events of one PlayerData message at most
\* MaxInboundEvents take effect: no other participant of the session is
\* notified of more counter changes than that by one message.
C26_InboundEventCap ==
    [][last'.op = "PlayerDataWire" =>
          \A o \in DOMAIN objs :
             \A p \in DOMAIN objs[o].players :
                (p # last'.data /\ o \in DOMAIN objs' /\ p \in DOMAIN objs'[o].players)
                   => objs'[o].players[p].prio_counter
                         <= objs[o].players[p].prio_counter + MaxInboundEvents]_vars

\* ------------------------------------------------------------------ delivery order
\* The step answers a PlayerData message without inbound events of a player
\* that the session already knows.
PollStep ==
    /\ last'.op = "PlayerData"
    /\ last'.events = <<>>
    /\ Len(last'.sent) = 1
    /\ clients[last'.client].session # None
    /\ last'.data \in DOMAIN objs[clients[last'.client].session].players

\* The unread counter values of the polling player before and after the step
PendingBefore == objs[clients[last'.client].session].players[last'.data].unread_counter_values

PendingAfter == objs'[clients[last'.client].session].players[last'.data].unread_counter_values

\* The positions of the frame's events that are counter values
CounterPositions(f) ==
    {i \in DOMAIN f.events : f.events[i].type \in {"CounterChange", "SetItem"}}

\* C27: counter changes are delivered oldest-first: the counter events of a
\* frame are in ascending prio order, and every change delivered in a frame
\* has a smaller prio than every change that stays pending.
C27_OldestFirst ==
    [][PollStep =>
          LET f == last'.sent[1]
          IN /\ \A i, j \in CounterPositions(f) :
                   i < j => PendingBefore[f.events[i].item_id].prio
                               < PendingBefore[f.events[j].item_id].prio
             /\ \A d \in (DOMAIN PendingBefore) \ (DOMAIN PendingAfter) :
                   \A k \in DOMAIN PendingAfter :
                      PendingBefore[d].prio < PendingBefore[k].prio]_vars

\* The step answers a PlayerData message that carried one counter change.
CounterChangeStep ==
    /\ last'.op = "PlayerData"
    /\ Len(last'.sent) = 1
    /\ Len(last'.events) = 1
    /\ last'.events[1].type = "CounterChange"
    /\ clients[last'.client].session # None

\* After the step, participant p of session object o holds the item's current
\* value as its unread entry for the item, with the newest prio of its map.
LatestPending(o, p, item) ==
    LET q == objs'[o].players[p]
    IN /\ item \in DOMAIN q.unread_counter_values
       /\ q.unread_counter_values[item].value = objs'[o].values[item]
       /\ q.unread_counter_values[item].prio = q.prio_counter
       /\ \A k \in (DOMAIN q.unread_counter_values) \ {item} :
             q.unread_counter_values[k].prio < q.unread_counter_values[item].prio

\* The frame f carries exactly one counter event for each item in S, with the
\* value the polling player had pending, and none for any other item.
DeliversOnce(f, S) ==
    \A item \in Items :
       LET at == {i \in CounterPositions(f) : f.events[i].item_id = item}
       IN IF item \in S
          THEN /\ Cardinality(at) = 1
               /\ \A i \in at : f.events[i].value = PendingBefore[item].value
          ELSE at = {}

\* C28 as stated: after every change of an item, every other participant's
\* unread entry for the item holds the most recent value with the newest
\* prio.
C28_LatestAlwaysPending ==
    [][CounterChangeStep =>
          LET o == clients[last'.client].session
          IN \A p \in DOMAIN objs[o].players :
                p # last'.data => LatestPending(o, p, last'.events[1].item_id)]_vars

\* C28, amended: after a change of an item, the unread entry for the item of
\* every other participant whose map was below its bound holds the most
\* recent value with the newest prio, whatever it held before; a participant
\* whose map was at its bound keeps what it had.  A frame carries exactly one
\* counter event, with the pending value, for every entry it takes out of
\* the map, and none for an entry that stays.
C28_Coalesced ==
    [][/\ CounterChangeStep =>
             LET o == clients[last'.client].session
             IN \A p \in DOMAIN objs[o].players :
                   p # last'.data =>
                      IF Cardinality(DOMAIN objs[o].players[p].unread_counter_values)
                            < MaxUnreadCounters
                      THEN LatestPending(o, p, last'.events[1].item_id)
                      ELSE objs'[o].players[p] = objs[o].players[p]
       /\ PollStep =>
             /\ DeliversOnce(last'.sent[1], (DOMAIN PendingBefore) \ (DOMAIN PendingAfter))
             /\ \A k \in DOMAIN PendingAfter :
                   k \in DOMAIN PendingBefore /\ PendingAfter[k] = PendingBefore[k]]_vars

\* Item 1 is the only item that was ever changed in the session, player 1 has
\* just changed it, and player 2, who was notified of its value twice, holds
\* one unread entry for it: the current value, with the newest prio.
C28_Witness ==
    /\ last.op = "PlayerData"
    /\ last.client = 1
    /\ Len(last.events) = 1
    /\ last.events[1].type = "CounterChange"
    /\ \E o \in DOMAIN objs :
          /\ DOMAIN objs[o].values = {1}
          /\ 2 \in DOMAIN objs[o].players
          /\ objs[o].players[2].prio_counter = 2
          /\ DOMAIN objs[o].players[2].unread_counter_values = {1}
          /\ objs[o].players[2].unread_counter_values[1] = [value |-> objs[o].values[1], prio |-> 2]

\* The unread events of player p of session object o, before and after the step
EventsBefore(o, p) == objs[o].players[p].unread_events

EventsAfter(o, p) == objs'[o].players[p].unread_events

\* C29: the unread events of a participant are delivered in the order they
\* were pushed, each once: a push appends to the queue, a frame takes its
\* events from the head of the queue, in the queue's order and after the
\* frame's counter changes, and what did not fit in the frame stays in the
\* queue, in its order.
C29_EventsInOrder ==
    [][/\ last'.op = "PlayerData" =>
             \A o \in DOMAIN objs :
                \A p \in DOMAIN objs[o].players :
                   p # last'.data =>
                      /\ Len(EventsAfter(o, p)) >= Len(EventsBefore(o, p))
                      /\ SubSeq(EventsAfter(o, p), 1, Len(EventsBefore(o, p)))
                            = EventsBefore(o, p)
       /\ last'.op = "PollWide" =>
             LET o == clients[last'.client].session
                 p == last'.data
                 f == last'.sent[1]
                 ncounters == Cardinality(CounterPositions(f))
                 n == Len(f.events) - ncounters
             IN p \in DOMAIN objs[o].players =>
                   /\ CounterPositions(f) = 1..ncounters
                   /\ n <= Len(EventsBefore(o, p))
                   /\ SubSeq(f.events, ncounters + 1, Len(f.events))
                         = SubSeq(EventsBefore(o, p), 1, n)
                   /\ EventsAfter(o, p)
                         = SubSeq(EventsBefore(o, p), n + 1, Len(EventsBefore(o, p)))
                   /\ EventsAfter(o, p) # <<>> => Len(f.events) = WideEventCount]_vars

\* A frame with a counter change followed by the link request that was pushed
\* first, while the link request pushed second is still queued.
C29_Witness ==
    /\ last.op = "PollWide"
    /\ last.data = 2
    /\ Len(last.sent[1].events) = 2
    /\ last.sent[1].events[1].type = "CounterChange"
    /\ last.sent[1].events[2] = OutLinkRequest(1, TRUE)
    /\ objs[clients[last.client].session].players[2].unread_events = <<OutLinkRequest(1, FALSE)>>

\* ------------------------------------------------------------------ counter arithmetic
\* The low and the high 16 bits of the two's complement of an i32
Lo16(x) == x % 65536

Hi16(x) == (x \div 65536) % 65536

\* r is the sum of a and b modulo 2^32.
IsWrappedSum(a, b, r) ==
    LET lo == Lo16(a) + Lo16(b)
        hi == Hi16(a) + Hi16(b) + lo \div 65536
    IN Lo16(r) = lo % 65536 /\ Hi16(r) = hi % 65536

\* The four bytes are an f32 that is infinite or NaN; that is +0.0 or -0.0.
BitsNonFinite(b) == b[4] % 128 = 127 /\ b[3] >= 128

BitsZero(b) == b[1] = 0 /\ b[2] = 0 /\ b[3] = 0 /\ b[4] % 128 = 0

\* C30: handle_change returns the item id of the change and the item's new
\* value, which it stores: an item it has not seen counts as 0, Set gives the
\* value of the change, Add the sum wrapped to 32 bits, Multiply by an
\* infinite or NaN factor and Divide by zero or by an infinite or NaN divisor
\* give the old value.
C30_HandleChange ==
    [][last'.op = "HandleChange" =>
          LET in == last'.events[1]
              out == last'.sent[1]
              t == in.change.ctype
              entry == IF in.change.item_id \in DOMAIN in.values
                       THEN in.values[in.change.item_id] ELSE 0
          IN /\ out.item_id = in.change.item_id
             /\ out.values[out.item_id] = out.value
             /\ out.value >= -I32Max - 1 /\ out.value <= I32Max
             /\ t.kind = "Set" => out.value = t.val
             /\ t.kind = "Add" => IsWrappedSum(entry, t.val, out.value)
             /\ (t.kind = "Multiply" /\ BitsNonFinite(t.f.bits)) => out.value = entry
             /\ (t.kind = "Divide" /\ (BitsNonFinite(t.f.bits) \/ BitsZero(t.f.bits)))
                   => out.value = entry]_vars

\* i32::MAX plus 1 has wrapped to i32::MIN.
C30_Witness ==
    /\ last.op = "HandleChange"
    /\ last.events[1].values = MapPut(EmptyMap, 1, I32Max)
    /\ last.events[1].change.ctype = [kind |-> "Add", val |-> 1]
    /\ last.sent[1].value = -I32Max - 1

\* ------------------------------------------------------------------ level scripts
\* The session object o has scripting in the state reached and had none before.
ScriptingSetIn(o) ==
    /\ o \in DOMAIN objs'
    /\ objs'[o].scripting
    /\ ~(o \in DOMAIN objs /\ objs[o].scripting)

\* C25: scripting of a session is initialised only by a SendLevelScript
\* message whose sender is in that session and is its owner and, when
\* verify_script_signatures is enabled, only while the script signer is
\* installed and every script of the message carries a valid signature; in
\* every other case the session's scripting stays uninitialised.
C25_ScriptingInitialised ==
    [][\A o \in ObjIds :
          ScriptingSetIn(o) =>
             /\ last'.op = "SendLevelScript"
             /\ o \in DOMAIN objs
             /\ clients[last'.client].session = o
             /\ IsAuthorized(last'.client)
             /\ clients[last'.client].account_data = objs[o].owner
             /\ verify_script_signatures =>
                   /\ script_signer
                   /\ \A i \in DOMAIN last'.events[1].scripts :
                         last'.events[1].scripts[i].signed]_vars

\* The owner of a room's session has sent two signed scripts to a server that
\* verifies signatures, and the session has scripting.
C25_Witness ==
    /\ last.op = "SendLevelScript"
    /\ verify_script_signatures
    /\ Len(last.events[1].scripts) = 2
    /\ clients[last.client].session # None
    /\ objs[clients[last.client].session].scripting
    /\ objs[clients[last.client].session].owner = clients[last.client].account_data

\* ------------------------------------------------------------------ script logs
\* C31: the script log buffer of a session never holds more than
\* MaxScriptLogs messages.
C31_LogsBounded == \A o \in DOMAIN objs : objs[o].logs <= MaxScriptLogs

\* ------------------------------------------------------------------ sessions of rooms
\* C32 as stated: every registered session of a room has its room in the
\* rooms map.
C32_SessionsHaveRooms ==
    \A sid \in AllSessionIds :
       (sessions[sid] # None /\ RoomId(sid) # 0) => RoomId(sid) \in DOMAIN all_rooms

\* C32, amended: a session of a room is registered only by a JoinSession that
\* finds the room in the rooms map; NotifyRoomDeleted removes the room and
\* leaves the registered sessions as they are.
C32_RoomKnownAtJoin ==
    [][/\ \A sid \in AllSessionIds :
             (RoomId(sid) # 0 /\ sessions[sid] = None /\ sessions'[sid] # None)
                => /\ last'.op = "JoinSession"
                   /\ RoomId(sid) \in DOMAIN all_rooms
       /\ last'.op = "NotifyRoomDeleted" => (sessions' = sessions /\ objs' = objs)]_vars

\* The room of a registered session has just been deleted.
C32_Witness ==
    /\ last.op = "NotifyRoomDeleted"
    /\ \E sid \in AllSessionIds :
          /\ RoomId(sid) = last.events[1].room_id
          /\ sessions[sid] # None
          /\ RoomId(sid) \notin DOMAIN all_rooms

\* ------------------------------------------------------------------ joining concurrently
\* C33: when add_player has inserted a player, the player has every counter
\* of the session pending with the counter's value, and nothing else (the
\* session has no more counters than the unread map can hold).
C33_JoinerConverges ==
    [][last'.op = "JoinInsert" =>
          LET o == clients[last'.client].session
              p == clients'[last'.client].account_data
              pending == objs'[o].players[p].unread_counter_values
          IN Cardinality(DOMAIN objs'[o].counters) <= MaxUnreadCounters =>
                /\ DOMAIN pending = DOMAIN objs'[o].counters
                /\ \A i \in DOMAIN pending : pending[i].value = objs'[o].counters[i]]_vars

\* C34: two idle clients whose session slots hold sessions of the same id
\* hold the same GameSession object, that object is the one the registry has
\* under the id, and both clients' accounts are among its players.
C34_SameSessionObject ==
    \A c, d \in Clients :
       LET o == clients[c].session
           q == clients[d].session
       IN (/\ c # d
           /\ clients[c].pc = "idle" /\ clients[d].pc = "idle"
           /\ o # None /\ q # None
           /\ objs[o].id = objs[q].id)
          => /\ o = q
             /\ sessions[objs[o].id] = o
             /\ {clients[c].account_data, clients[d].account_data} \subseteq DOMAIN objs[o].players

\* ------------------------------------------------------------------ changing a counter concurrently
\* The value of item i in a map of counters, an absent entry counting as 0
ValueOf(f, i) == IF i \in DOMAIN f THEN f[i] ELSE 0

\* C35: when no counter change is between handle_change and
\* notify_counter_change, the counters of every session agree with the values
\* of its trigger manager, and what a participant has pending for an item is
\* the item's value.
C35_CountersAgree ==
    (\A c \in Clients : clients[c].pc # "notify") =>
       \A o \in DOMAIN objs :
          \A i \in Items :
             /\ ValueOf(objs[o].counters, i) = ValueOf(objs[o].values, i)
             /\ \A p \in DOMAIN objs[o].players :
                   i \in DOMAIN objs[o].players[p].unread_counter_values =>
                      objs[o].players[p].unread_counter_values[i].value = ValueOf(objs[o].values, i)

\* ------------------------------------------------------------------ slots and players
\* C36: when every client is between handler calls, a client's session slot
\* holds the session o exactly if the client is authorized and its account id
\* is a key of o.players; the keys of players are the player_ids; and every
\* key is the non-zero account id of a connected, authorized client.
C36_SlotIffPlayer ==
    (\A c \in Clients : clients[c].pc = "idle") =>
       \A o \in DOMAIN objs :
          /\ \A c \in Clients :
                clients[c].status = "connected" =>
                   (clients[c].session = o
                       <=> (Authorized(World, c)
                            /\ AccountId(World, c) \in DOMAIN objs[o].players))
          /\ DOMAIN objs[o].players = objs[o].player_ids
          /\ 0 \notin DOMAIN objs[o].players
          /\ \A p \in DOMAIN objs[o].players :
                \E c \in Clients : /\ clients[c].status = "connected"
                                   /\ Authorized(World, c)
                                   /\ clients[c].account_data = p
                                   /\ clients[c].session = o

\* ------------------------------------------------------------------ leaked sessions
\* C37: when no client is connected any more, the registry of the session
\* manager holds no session.
C37_NoSessionLeaked ==
    (\A c \in Clients : clients[c].status # "connected") =>
       \A sid \in DOMAIN sessions : sessions[sid] = None

\* ------------------------------------------------------------------ the players list
\* C38: the players list of a frame has exactly one entry for every
\* participant of the sender's session other than the sender: no entry with
\* account id 0, no account id twice, no other participant missing.
C38_PlayersExact ==
    \A f \in Frames :
       LET o == clients[f.to].session
           others == DOMAIN objs[o].players \ {clients[f.to].account_data}
       IN /\ \A k \in DOMAIN f.players : f.players[k] # 0
          /\ \A k, l \in DOMAIN f.players : f.players[k] = f.players[l] => k = l
          /\ {f.players[k] : k \in DOMAIN f.players} = others

\* ------------------------------------------------------------------ draining to the end
\* Player 1 adds to counters and sends link requests to player 2; every
\* player keeps sending PlayerData.
SettleEventLists ==
    {<<>>} \cup {<<e>> : e \in {x \in InEvents :
                                \/ /\ x.type = "CounterChange" /\ x.item_id = 1
                                   /\ x.ctype.kind = "Add"
                                \/ x.type = "TwoPlayerLinkRequest" /\ x.player_id = 2 /\ x.player1}}

NextSettle ==
    \/ \E c \in Players : Connect(c)
    \/ \E c \in Players : LoginUToken(c, {c}, {TRUE})
    \/ \E c \in Players : JoinSession(c, {1})
    \/ \E c \in Players : PlayerData(c, {c}, IF c = 1 THEN SettleEventLists ELSE {<<>>})
    \/ BridgeConnected
    \/ BridgeLoginOk

SpecSettle == Init /\ [][NextSettle]_vars

SpecSettleFair == SpecSettle /\ \A c \in Players : WF_vars(Poll(c))

\* The last handler pushed nothing to any participant: it was no JoinSession,
\* which seeds the joiner's counters, and no PlayerData with inbound events.
Quiet ==
    /\ last.op # "JoinSession"
    /\ last.op = "PlayerData" => last.events = <<>>

\* Both queues of player p are empty in every session that has p.
QueuesEmpty(p) ==
    \A o \in DOMAIN objs :
       p \in DOMAIN objs[o].players =>
          /\ objs[o].players[p].unread_counter_values = EmptyMap
          /\ objs[o].players[p].unread_events = <<>>

\* What a PlayerData without inbound events delivers: the frame has as many
\* events as are pending, up to MAX_EVENT_COUNT; every counter value taken out
\* of the unread map is in the frame once and no other counter value is; the
\* other events of the frame are the head of the unread events, whose rest
\* stays queued; and a counter value that stays pending is unchanged.
DeliveredOnce ==
    PollStep =>
       LET f == last'.sent[1]
           o == clients[last'.client].session
           before == objs[o].players[last'.data]
           after == objs'[o].players[last'.data]
           total == Size(before.unread_counter_values) + Len(before.unread_events)
           taken == DOMAIN before.unread_counter_values \ DOMAIN after.unread_counter_values
       IN /\ Len(f.events) = (IF total < MAX_EVENT_COUNT THEN total ELSE MAX_EVENT_COUNT)
          /\ DOMAIN after.unread_counter_values \subseteq DOMAIN before.unread_counter_values
          /\ \A item \in DOMAIN after.unread_counter_values :
                after.unread_counter_values[item] = before.unread_counter_values[item]
          /\ \A item \in taken :
                Cardinality({k \in CounterPositions(f) :
                                /\ f.events[k].item_id = item
                                /\ f.events[k].value = before.unread_counter_values[item].value}) = 1
          /\ Cardinality(CounterPositions(f)) = Cardinality(taken)
          /\ before.unread_events = QueueEvents(f) \o after.unread_events

\* C39: once nothing more is pushed, the queues of every player that keeps
\* sending PlayerData become and stay empty, and each PlayerData delivers the
\* entries it takes out of the queues exactly once.
C39_QueuesDrain ==
    /\ <>[]Quiet => \A p \in Players : <>[]QueuesEmpty(p)
    /\ [][DeliveredOnce]_vars

\* A PlayerData without inbound events has delivered the last pending entries
\* of its sender, whose queues are empty now.
C39_Witness ==
    /\ last.op = "PlayerData" /\ last.events = <<>>
    /\ \E f \in Frames : f.events # <<>>
    /\ clients[last.client].session # None
    /\ last.data \in DOMAIN objs[clients[last.client].session].players
    /\ objs[clients[last.client].session].players[last.data].unread_counter_values = EmptyMap
    /\ objs[clients[last.client].session].players[last.data].unread_events = <<>>

\* ------------------------------------------------------------------ the bridge reconnects
\* The sleep of delay_reconnect ends and connect() is called.
SpecBridgeFair == SpecBridge /\ WF_vars(BridgeWake(BOOLEAN))

\* After on_disconnected, on_connection_error and the connect() that follows a
\* sleep, the bridge is connecting or asleep before its next connect(), also
\* when the connect() of the handler returned an error.
RetryPending ==
    last'.op \in {"BridgeDisconnected", "BridgeConnectionError", "BridgeWake"} =>
       /\ \/ bridge'.pos = "connecting"
          \/ bridge'.pos = "sleeping" /\ bridge'.wait >= Pow2(MinBackoffExp)
       /\ (last'.op # "BridgeConnectionError" /\ ~last'.events[1].connect_ok
             /\ (last'.op = "BridgeDisconnected" => bridge'.wait # QuickDisconnectDelay))
          => /\ bridge'.pos = "sleeping"
             /\ bridge'.reconnect_attempt = bridge.reconnect_attempt + 1

\* C40: the bridge is never without a connection or a pending retry, and
\* every sleep before a retry ends in a call of connect(), which starts a
\* connection or fails and counts one more attempt.
C40_ReconnectsEventually ==
    /\ [](bridge.pos \in {"connecting", "connected", "sleeping"})
    /\ [][RetryPending]_vars
    /\ \A n \in 0..MaxAttempts :
          (bridge.pos = "sleeping" /\ bridge.reconnect_attempt = n)
             ~> (bridge.pos = "connecting" \/ bridge.reconnect_attempt > n)

\* The connect() after a sleep has failed for the second time in a row, and
\* the bridge is asleep again.
C40_Witness ==
    /\ last.op = "BridgeWake"
    /\ ~last.events[1].connect_ok
    /\ bridge.pos = "sleeping"
    /\ bridge.reconnect_attempt >= 2

====
